---- MODULE Spec2Model ----
(***************************************************************************)
(* Model of the annotated-reply parser of the Larry chat front end         *)
(* (parseLarryResponse in src/components/LarrySessionPanel.tsx) and of the *)
(* outlier detector of the opportunity views (detectAnomalies in           *)
(* src/lib/ai-service.ts), with the pages and components that call them.   *)
(*                                                                         *)
(* A string is a sequence of one-character strings, so that split, trim    *)
(* and the regular expressions of the parser are computed character by     *)
(* character, the way the JavaScript engine computes them.                 *)
(***************************************************************************)
EXTENDS Integers, Sequences, FiniteSets, TLC

VARIABLES
  chunks,     \* the fragments the reply has been received in, in order
  response,   \* the reply string handed to parseLarryResponse
  pc,         \* "compose": the reply is being received; "parsed": the call returned
  result,     \* the value parseLarryResponse returned (Null before the call)
  earlier,    \* one earlier call of the session, its reply and result (Null: none)
  opportunities,  \* the records handed to detectAnomalies
  mean,       \* the mean detectAnomalies computed (Null before the call)
  stdDev,     \* the standard deviation it computed (Null before the call)
  anomalies,  \* the list detectAnomalies returned (Null before the call)
  input,      \* chat page: the text of the input box
  messages,   \* chat page: the messages shown, in order
  isLoading,  \* chat page: a request is under way
  sessionData,  \* chat page: clarity, stats and parked ideas of the session
  request,    \* chat page: the request sendMessage awaits (Null: none)
  atSend,     \* chat page: the state sendMessage was last called in (Null: never)
  data,       \* the dataset the page hands to OpportunityGrid and OpportunityCharts
  showAnomalyHighlighting,  \* OpportunityGrid: the prop of that name
  gridAnomalies,    \* OpportunityGrid: the anomalies stored (id and anomalyType)
  gridDetections,   \* OpportunityGrid: calls of detectAnomalies whose `then` is due
  chartsAnomalies,  \* OpportunityCharts: the anomalies stored
  chartsDetections, \* OpportunityCharts: calls of detectAnomalies awaited
  insights,         \* OpportunityCharts: the insights stored
  isLoadingInsights,  \* OpportunityCharts: the flag of that name
  chartsRequests,   \* OpportunityCharts: calls of chartInsightsHandler awaited
  aiCall,     \* AI service: the handler called, its input and where the call is
  aiSettled,  \* AI service: how the promise of the call settled (Null: pending)
  inputValue,   \* SmartChatInput: the prop value
  disabled,     \* SmartChatInput: the prop disabled
  suggestion,   \* SmartChatInput: the state of that name
  showSuggestion,       \* SmartChatInput: the state of that name
  isLoadingSuggestion,  \* SmartChatInput: the state of that name
  debounceRef,  \* SmartChatInput: the timer pending (Null: none)
  suggestionRequests,   \* SmartChatInput: calls of smartTextAreaHandler awaited
  suggestionFor,  \* the text the stored suggestion was asked for (Null: none stored)
  blocks,         \* OpportunityNotes: the state of that name
  activeBlockId,  \* OpportunityNotes: the state of that name
  showBlockMenu,  \* OpportunityNotes: the state of that name
  generated       \* OpportunityNotes: how many ids generateId has made

parser == <<chunks, response, pc, result, earlier>>
detector == <<opportunities, mean, stdDev, anomalies>>
chat == <<input, messages, isLoading, sessionData, request, atSend>>
\* the state of the pages and components
views ==
  <<data, showAnomalyHighlighting, gridAnomalies, gridDetections, chartsAnomalies,
    chartsDetections, insights, isLoadingInsights, chartsRequests>>
services == <<aiCall, aiSettled>>
smartInput ==
  <<inputValue, disabled, suggestion, showSuggestion, isLoadingSuggestion, debounceRef,
    suggestionRequests, suggestionFor>>
notes == <<blocks, activeBlockId, showBlockMenu, generated>>
pages == <<chat, views, services, smartInput, notes>>
vars ==
  <<chunks, response, pc, result, earlier, opportunities, mean, stdDev, anomalies, pages>>

(***************************************************************************)
(* Bounds of the model.                                                    *)
(***************************************************************************)
\* A reply is received in at most MaxPieces fragments (MaxFieldPieces where the
\* fragments are labels and values, MaxItemPieces where they are whole items).
MaxPieces == 5
MaxFieldPieces == 3
MaxItemPieces == 4
\* A reply of a session of several calls is received in at most MaxSessionPieces.
MaxSessionPieces == 2
\* `new Date()` reads a clock with values 0..MaxClock.
MaxClock == 1
\* detectAnomalies is called on at most MaxRecords records (MaxBoundaryRecords
\* where the scores are four decimal fractions, MaxTinyRecords where they are
\* near the least positive Numbers).
MaxRecords == 6
MaxBoundaryRecords == 5
MaxTinyRecords == 6
\* The chat page shows at most MaxMessages messages.
MaxMessages == 4
\* A component awaits at most MaxPending calls of one kind at a time.
MaxPending == 1
\* The notes hold at most MaxBlocks blocks.
MaxBlocks == 3
\* generateId is called at most MaxGenerated times.
MaxGenerated == 2

(***************************************************************************)
(* Literals of the source, as character sequences.                         *)
(***************************************************************************)
DELIM ==
  <<"-", "-", "-">>
LabelClarity ==
  <<"P", "r", "o", "b", "l", "e", "m", " ", "C", "l", "a", "r", "i", "t", "y", ":">>
LabelWhat ==
  <<"W", "h", "a", "t", " ", "i", "s", " ", "t", "h", "e", " ", "p", "r", "o", "b", "l", "e", "m", ":">>
LabelWho ==
  <<"W", "h", "o", " ", "h", "a", "s", " ", "t", "h", "i", "s", " ", "p", "r", "o", "b", "l", "e", "m", ":">>
LabelSuccess ==
  <<"W", "h", "a", "t", " ", "i", "s", " ", "s", "u", "c", "c", "e", "s", "s", ":">>
LabelQuestions ==
  <<"Q", "u", "e", "s", "t", "i", "o", "n", "s", " ", "a", "s", "k", "e", "d", ":">>
LabelParked ==
  <<"P", "a", "r", "k", "e", "d", " ", "i", "d", "e", "a", "s", ":">>
LabelChallenged ==
  <<"A", "s", "s", "u", "m", "p", "t", "i", "o", "n", "s", " ", "c", "h", "a", "l", "l", "e", "n", "g", "e", "d", ":">>
MarkerParkedIdeas ==
  <<"*", "*", "P", "a", "r", "k", "e", "d", " ", "I", "d", "e", "a", "s", ":", "*", "*">>
NONE ==
  <<"N", "o", "n", "e">>
DefaultWhat ==
  <<"N", "o", "t", " ", "y", "e", "t", " ", "c", "l", "e", "a", "r">>
DefaultWho ==
  <<"N", "o", "t", " ", "y", "e", "t", " ", "i", "d", "e", "n", "t", "i", "f", "i", "e", "d">>
DefaultSuccess ==
  <<"N", "o", "t", " ", "y", "e", "t", " ", "d", "e", "f", "i", "n", "e", "d">>
IdPrefix ==
  <<"i", "d", "e", "a", "-">>
PERCENT ==
  <<"%">>
NEWLINE ==
  <<"\n">>

(***************************************************************************)
(* Character classes of the regular expressions and of String.trim.        *)
(***************************************************************************)
\* \s, and the characters trim() removes
Whitespace == {" ", "\n", "\t", "\r"}

\* \d
Digit == {"0", "1", "2", "3", "4", "5", "6", "7", "8", "9"}


DigitValue(c) ==
  CASE c = "0" -> 0 [] c = "1" -> 1 [] c = "2" -> 2 [] c = "3" -> 3
    [] c = "4" -> 4 [] c = "5" -> 5 [] c = "6" -> 6 [] c = "7" -> 7
    [] c = "8" -> 8 [] c = "9" -> 9

DigitChar(d) ==
  CASE d = 0 -> "0" [] d = 1 -> "1" [] d = 2 -> "2" [] d = 3 -> "3"
    [] d = 4 -> "4" [] d = 5 -> "5" [] d = 6 -> "6" [] d = 7 -> "7"
    [] d = 8 -> "8" [] d = 9 -> "9"

Min(S) == CHOOSE x \in S : \A y \in S : x <= y
Max(S) == CHOOSE x \in S : \A y \in S : x >= y

(***************************************************************************)
(* String primitives.                                                      *)
(***************************************************************************)
\* lit occurs in s at index i
StartsWithAt(s, i, lit) ==
  /\ i >= 1
  /\ i + Len(lit) - 1 <= Len(s)
  /\ \A k \in 1..Len(lit) : s[i + k - 1] = lit[k]

\* String.prototype.indexOf, 1-based; 0 when lit does not occur at or after from
indexOf(s, lit, from) ==
  LET hits == {i \in from..(Len(s) - Len(lit) + 1) : StartsWithAt(s, i, lit)}
  IN  IF hits = {} THEN 0 ELSE Min(hits)

\* String.prototype.includes
includes(s, lit) == indexOf(s, lit, 1) # 0

\* String.prototype.startsWith
startsWith(s, lit) == StartsWithAt(s, 1, lit)

\* String.prototype.split with a non-empty string separator: the pieces between
\* the occurrences of sep, found left to right without overlap
RECURSIVE split(_, _)
split(s, sep) ==
  LET i == indexOf(s, sep, 1)
  IN  IF i = 0
        THEN <<s>>
        ELSE <<SubSeq(s, 1, i - 1)>> \o split(SubSeq(s, i + Len(sep), Len(s)), sep)

\* Array.prototype.join
RECURSIVE join(_, _)
join(ps, sep) ==
  IF ps = <<>> THEN <<>>
  ELSE IF Len(ps) = 1 THEN ps[1]
  ELSE ps[1] \o sep \o join(Tail(ps), sep)

\* String.prototype.trim
trim(s) ==
  LET keep == {i \in 1..Len(s) : s[i] \notin Whitespace}
  IN  IF keep = {} THEN <<>> ELSE SubSeq(s, Min(keep), Max(keep))

\* The end of the longest run of characters of `class` that starts at i: the
\* index of the first character at or after i that is not in class, or
\* Len(s) + 1. This is where a greedy \s* or \d+ stops.
ScanWhile(s, i, class) ==
  LET stop == {k \in i..Len(s) : s[k] \notin class}
  IN  IF stop = {} THEN Len(s) + 1 ELSE Min(stop)

\* The same for a negated class: the index of the first character at or after i
\* that is in `excluded`, or Len(s) + 1. This is where a greedy [^...]+ stops.
ScanUntil(s, i, excluded) ==
  LET stop == {k \in i..Len(s) : s[k] \in excluded}
  IN  IF stop = {} THEN Len(s) + 1 ELSE Min(stop)

\* parseInt of a string of decimal digits
RECURSIVE parseInt(_)
parseInt(ds) ==
  IF ds = <<>> THEN 0
  ELSE 10 * parseInt(SubSeq(ds, 1, Len(ds) - 1)) + DigitValue(ds[Len(ds)])

\* The decimal digits of a natural number, as `${idx}` writes them
RECURSIVE decimal(_)
decimal(n) ==
  IF n < 10 THEN <<DigitChar(n)>> ELSE decimal(n \div 10) \o <<DigitChar(n % 10)>>

(***************************************************************************)
(* String.prototype.match with the regular expressions of the parser.      *)
(* A match result is null (NoMatch) or carries the first capture group.    *)
(* The engine tries the start positions left to right and returns the      *)
(* first position at which the pattern matches.  In the three patterns the *)
(* neighbouring pieces (label, \s*, \d+, '%', '[', [^\]]+, ']', [^*]+)     *)
(* accept disjoint characters, so that backtracking into a greedy run      *)
(* never turns a failed attempt into a match: an attempt at a position is  *)
(* decided by the longest runs.                                            *)
(***************************************************************************)
NoMatch == [matched |-> FALSE, group |-> <<>>]
Match(g) == [matched |-> TRUE, group |-> g]

\* /<label>\s*(\d+)<suffix>/ tried at position i
NumberAt(s, i, label, suffix) ==
  LET j == ScanWhile(s, i + Len(label), Whitespace)
      e == ScanWhile(s, j, Digit)
  IN  IF StartsWithAt(s, i, label) /\ e > j /\ StartsWithAt(s, e, suffix)
        THEN Match(SubSeq(s, j, e - 1))
        ELSE NoMatch

\* /<label>\s*(\d+)<suffix>/, suffix a literal (possibly empty)
MatchNumber(s, label, suffix) ==
  LET starts == {i \in 1..Len(s) : StartsWithAt(s, i, label)
                                     /\ NumberAt(s, i, label, suffix).matched}
  IN  IF starts = {} THEN NoMatch ELSE NumberAt(s, Min(starts), label, suffix)

\* /<label>\s*\[([^\]]+)\]/ tried at position i
BracketedAt(s, i, label) ==
  LET j == ScanWhile(s, i + Len(label), Whitespace)
      e == ScanUntil(s, j + 1, {"]"})
  IN  IF StartsWithAt(s, i, label) /\ j <= Len(s) /\ s[j] = "[" /\ e > j + 1 /\ e <= Len(s)
        THEN Match(SubSeq(s, j + 1, e - 1))
        ELSE NoMatch

\* BracketedAt with [^\]]* in place of [^\]]+: an empty pair of brackets matches
BracketedStarAt(s, i, label) ==
  LET j == ScanWhile(s, i + Len(label), Whitespace)
      e == ScanUntil(s, j + 1, {"]"})
  IN  IF StartsWithAt(s, i, label) /\ j <= Len(s) /\ s[j] = "[" /\ e <= Len(s)
        THEN Match(SubSeq(s, j + 1, e - 1))
        ELSE NoMatch

\* MatchBracketed with [^\]]* in place of [^\]]+
MatchBracketedStar(s, label) ==
  LET starts == {i \in 1..Len(s) : StartsWithAt(s, i, label)
                                     /\ BracketedStarAt(s, i, label).matched}
  IN  IF starts = {} THEN NoMatch ELSE BracketedStarAt(s, Min(starts), label)

\* /<label>\s*\[([^\]]+)\]/
MatchBracketed(s, label) ==
  LET starts == {i \in 1..Len(s) : StartsWithAt(s, i, label)
                                     /\ BracketedAt(s, i, label).matched}
  IN  IF starts = {} THEN NoMatch ELSE BracketedAt(s, Min(starts), label)

\* /<marker>([^*]+)/ tried at position i
BlockMatchAt(s, i, marker) ==
  LET j == i + Len(marker)
      e == ScanUntil(s, j, {"*"})
  IN  IF StartsWithAt(s, i, marker) /\ e > j
        THEN Match(SubSeq(s, j, e - 1))
        ELSE NoMatch

\* MatchBlock with a capture that runs to the end of the text
MatchBlockToEnd(s, marker) ==
  LET starts == {i \in 1..Len(s) : StartsWithAt(s, i, marker) /\ i + Len(marker) <= Len(s)}
  IN  IF starts = {} THEN NoMatch
      ELSE Match(SubSeq(s, Min(starts) + Len(marker), Len(s)))

\* /<marker>([^*]+)/
MatchBlock(s, marker) ==
  LET starts == {i \in 1..Len(s) : StartsWithAt(s, i, marker)
                                     /\ BlockMatchAt(s, i, marker).matched}
  IN  IF starts = {} THEN NoMatch ELSE BlockMatchAt(s, Min(starts), marker)

(***************************************************************************)
(* parseLarryResponse, statement by statement.                             *)
(***************************************************************************)
\* parts with the separator "--"
partsTwoDashes(r) == split(r, <<"-", "-">>)

\* const parts = response.split("---")
parts(r) == split(r, DELIM)

\* const message = parts[0].trim()
message(r) == trim(parts(r)[1])

\* if (parts.length > 1)
hasMetadata(r) == Len(parts(r)) > 1

\* metadataSection as parts[1]: the text between the first and the second "---"
metadataSectionSecondPart(r) == parts(r)[2]

\* the annotations looked for in the whole reply
metadataSectionWholeReply(r) == r

\* const metadataSection = parts.slice(1).join("---")
metadataSection(r) == join(Tail(parts(r)), DELIM)

DefaultClarity ==
  [percentage |-> 0, what |-> DefaultWhat, who |-> DefaultWho, success |-> DefaultSuccess]

DefaultStats ==
  [questionsAsked |-> 0, parkedIdeas |-> 0, assumptionsChallenged |-> 0]

clarityMatch(md) == MatchNumber(md, LabelClarity, PERCENT)
whatMatch(md) == MatchBracketed(md, LabelWhat)
whoMatch(md) == MatchBracketed(md, LabelWho)
successMatch(md) == MatchBracketed(md, LabelSuccess)
questionsMatch(md) == MatchNumber(md, LabelQuestions, <<>>)
parkedMatch(md) == MatchNumber(md, LabelParked, <<>>)
challengedMatch(md) == MatchNumber(md, LabelChallenged, <<>>)
parkedSection(md) == MatchBlock(md, MarkerParkedIdeas)

\* line => line.trim().startsWith("-")
isIdeaLine(line) == startsWith(trim(line), <<"-">>)

\* parkedSection[1].split("\n").filter(line => line.trim().startsWith("-"))
ideaLines(block) == SelectSeq(split(block, NEWLINE), isIdeaLine)

\* if (m) field = parseInt(m[1])
NumberOr(m, default) == IF m.matched THEN parseInt(m.group) ELSE default

\* if (m) field = m[1]
TextOr(m, default) == IF m.matched THEN m.group ELSE default

parseClarity(md) ==
  [percentage |-> NumberOr(clarityMatch(md), DefaultClarity.percentage),
   what       |-> TextOr(whatMatch(md), DefaultClarity.what),
   who        |-> TextOr(whoMatch(md), DefaultClarity.who),
   success    |-> TextOr(successMatch(md), DefaultClarity.success)]

\* parseStats with the parked-ideas counter taken from the length of the list
parseStatsCountingList(md) ==
  [questionsAsked        |-> NumberOr(questionsMatch(md), DefaultStats.questionsAsked),
   parkedIdeas           |-> IF parkedSection(md).matched
                               THEN Len(ideaLines(parkedSection(md).group))
                               ELSE NumberOr(parkedMatch(md), DefaultStats.parkedIdeas),
   assumptionsChallenged |-> NumberOr(challengedMatch(md), DefaultStats.assumptionsChallenged)]

parseStats(md) ==
  [questionsAsked        |-> NumberOr(questionsMatch(md), DefaultStats.questionsAsked),
   parkedIdeas           |-> NumberOr(parkedMatch(md), DefaultStats.parkedIdeas),
   assumptionsChallenged |-> NumberOr(challengedMatch(md), DefaultStats.assumptionsChallenged)]

\* idea.replace(/^-\s*/, ""): the pattern is anchored at the start of the line
stripDash(line) ==
  IF startsWith(line, <<"-">>)
    THEN SubSeq(line, ScanWhile(line, 2, Whitespace), Len(line))
    ELSE line

\* idea.replace(/^-\s*/, "").trim()
ideaText(line) == trim(stripDash(line))

\* `idea-${idx}`, idx the 0-based position in the filtered list
\* an id that leaves the index out
ideaIdWithoutIndex(idx) == IdPrefix \o decimal(0)

ideaId(idx) == IdPrefix \o decimal(idx)

\* ideas.map((idea, idx) => ({id, text, timestamp: new Date()}));
\* clock[k] is what the k-th `new Date()` returns
mapIdeas(ideas, clock) ==
  [k \in 1..Len(ideas) |->
     [id |-> ideaId(k - 1), text |-> ideaText(ideas[k]), timestamp |-> clock[k]]]

\* parseParkedIdeas suppressing the list only when the block is the word "None"
parseParkedIdeasNoneAlone(md, clock) ==
  LET m == parkedSection(md)
  IN  IF m.matched /\ trim(m.group) # NONE
        THEN mapIdeas(ideaLines(m.group), clock)
        ELSE <<>>

\* if (parkedSection && !parkedSection[1].includes("None")) ...
parseParkedIdeas(md, clock) ==
  LET m == parkedSection(md)
  IN  IF m.matched /\ ~includes(m.group, NONE)
        THEN mapIdeas(ideaLines(m.group), clock)
        ELSE <<>>

parseLarryResponse(r, clock) ==
  IF hasMetadata(r)
    THEN LET md == metadataSection(r)
         IN  [message     |-> message(r),
              clarity     |-> parseClarity(md),
              stats       |-> parseStats(md),
              parkedIdeas |-> parseParkedIdeas(md, clock)]
    ELSE [message     |-> message(r),
          clarity     |-> DefaultClarity,
          stats       |-> DefaultStats,
          parkedIdeas |-> <<>>]

(***************************************************************************)
(* The replies the model feeds the parser: every concatenation of at most  *)
(* MaxPieces fragments of one of four alphabets.                           *)
(***************************************************************************)
Hello ==
  <<"H", "e", "l", "l", "o">>
Dash ==
  <<"-">>
Value73 ==
  <<" ", "7", "3", "%">>
Digits150 ==
  <<"1", "5", "0">>
Value7Percent ==
  <<" ", "7", "%">>
Value7 ==
  <<" ", "7">>
TextX ==
  <<" ", "[", "x", "]">>
TextUnclosed ==
  <<" ", "[", "x">>
TextEmpty ==
  <<"[", "]">>
IdeaA ==
  <<"\n", "-", " ", "a">>
IdeaIndentedB ==
  <<"\n", " ", " ", "-", " ", "b", " ">>
NextSection ==
  <<"\n", "*", "*", "S", "t", "a", "t", "s", "*", "*", "\n", "-", " ", "c", "\n">>
SayNone ==
  <<" ", "N", "o", "n", "e">>
CounterLine ==
  <<"\n", "P", "a", "r", "k", "e", "d", " ", "i", "d", "e", "a", "s", ":", " ", "1", "2">>
ItemClarity ==
  <<"P", "r", "o", "b", "l", "e", "m", " ", "C", "l", "a", "r", "i", "t", "y", ":", " ", "7", "3", "%", "\n">>
ItemWhat ==
  <<"W", "h", "a", "t", " ", "i", "s", " ", "t", "h", "e", " ", "p", "r", "o", "b", "l", "e", "m", ":", " ", "[", "x", "]", "\n">>
ItemWho ==
  <<"W", "h", "o", " ", "h", "a", "s", " ", "t", "h", "i", "s", " ", "p", "r", "o", "b", "l", "e", "m", ":", " ", "[", "N", "o", "n", "e", " ", "y", "e", "t", "]", "\n">>
ItemSuccess ==
  <<"W", "h", "a", "t", " ", "i", "s", " ", "s", "u", "c", "c", "e", "s", "s", ":", " ", "[", "y", "]", "\n">>
ItemQuestions ==
  <<"Q", "u", "e", "s", "t", "i", "o", "n", "s", " ", "a", "s", "k", "e", "d", ":", " ", "3", "\n">>
ItemParkedCount ==
  <<"P", "a", "r", "k", "e", "d", " ", "i", "d", "e", "a", "s", ":", " ", "2", "\n">>
ItemChallenged ==
  <<"A", "s", "s", "u", "m", "p", "t", "i", "o", "n", "s", " ", "c", "h", "a", "l", "l", "e", "n", "g", "e", "d", ":", " ", "1", "\n">>
ItemParkedList ==
  <<"*", "*", "P", "a", "r", "k", "e", "d", " ", "I", "d", "e", "a", "s", ":", "*", "*", "\n", "-", " ", "a", "\n", "-", " ", "b", "\n">>

\* message text, whole and partial delimiters, and the pieces of a
\* 'Problem Clarity:' annotation
FragmentsClarity ==
  {Hello, DELIM, Dash, NEWLINE, LabelClarity, Value73, Digits150, PERCENT}

\* every label, and well-formed and malformed values
FragmentsFields ==
  {DELIM, LabelClarity, LabelWhat, LabelWho, LabelSuccess, LabelQuestions, LabelParked,
   LabelChallenged, MarkerParkedIdeas, Value7Percent, Value7, TextX, TextUnclosed,
   TextEmpty, IdeaA}

\* whole annotation items, one per field
Items ==
  {ItemClarity, ItemWhat, ItemWho, ItemSuccess, ItemQuestions, ItemParkedCount,
   ItemChallenged, ItemParkedList}

FragmentsItems == {Hello, DELIM} \cup Items

\* the parked-ideas block, its lines, the section after it, and the counter
FragmentsParked ==
  {DELIM, MarkerParkedIdeas, IdeaA, IdeaIndentedB, NextSection, SayNone, CounterLine}

\* the replies of a session: text, the delimiter, a list of two parked ideas
FragmentsSession == {Hello, DELIM, ItemParkedList}

(***************************************************************************)
(* The state machine: a reply is received piece by piece, the parser is    *)
(* called on it, and the next reply starts from the empty string.          *)
(***************************************************************************)
Null == [null |-> TRUE]

\* How many times parseLarryResponse reads the clock on reply r: once per idea
clockReads(r) == Len(parseLarryResponse(r, [k \in 1..Len(r) |-> 0]).parkedIdeas)

\* The clock never runs backwards
Clocks(n) ==
  {c \in [1..n -> 0..MaxClock] : \A a, b \in 1..n : a <= b => c[a] <= c[b]}

Init ==
  /\ chunks = <<>>
  /\ response = <<>>
  /\ pc = "compose"
  /\ result = Null
  /\ earlier = Null
  /\ opportunities = <<>>
  /\ mean = Null
  /\ stdDev = Null
  /\ anomalies = Null
  /\ input = <<>>
  /\ messages = <<>>
  /\ isLoading = FALSE
  /\ sessionData =
       [clarity |-> DefaultClarity, stats |-> DefaultStats, parkedIdeas |-> <<>>]
  /\ request = Null
  /\ atSend = Null
  /\ data = <<>>
  /\ showAnomalyHighlighting = TRUE
  /\ gridAnomalies = <<>>
  /\ gridDetections = <<>>
  /\ chartsAnomalies = <<>>
  /\ chartsDetections = <<>>
  /\ insights = <<>>
  /\ isLoadingInsights = FALSE
  /\ chartsRequests = <<>>
  /\ aiCall = Null
  /\ aiSettled = Null
  /\ inputValue = <<>>
  /\ disabled = FALSE
  /\ suggestion = ""
  /\ showSuggestion = FALSE
  /\ isLoadingSuggestion = FALSE
  /\ debounceRef = Null
  /\ suggestionRequests = <<>>
  /\ suggestionFor = Null
  /\ blocks = <<[id |-> "1", type |-> "text", content |-> ""]>>
  /\ activeBlockId = Null
  /\ showBlockMenu = FALSE
  /\ generated = 0

\* The reply grows by one fragment of `fragments`
Compose(fragments, max) ==
  /\ pc = "compose"
  /\ Len(chunks) < max
  /\ \E f \in fragments :
       /\ chunks' = Append(chunks, f)
       /\ response' = response \o f
  /\ UNCHANGED <<pc, result, earlier>>
  /\ UNCHANGED detector
  /\ UNCHANGED pages

ComposeClarity == Compose(FragmentsClarity, MaxPieces)
ComposeFields == Compose(FragmentsFields, MaxFieldPieces)
ComposeItems == Compose(FragmentsItems, MaxItemPieces)
ComposeParked == Compose(FragmentsParked, MaxPieces)
ComposeSession == Compose(FragmentsSession, MaxSessionPieces)

\* a parser that keeps the parked ideas of the earlier call
ParseKeepingIdeas ==
  /\ pc = "compose"
  /\ \E clock \in Clocks(clockReads(response)) :
       LET res == parseLarryResponse(response, clock)
       IN  result' = IF earlier = Null THEN res
                     ELSE [res EXCEPT !.parkedIdeas = earlier.result.parkedIdeas \o @]
  /\ pc' = "parsed"
  /\ UNCHANGED <<chunks, response, earlier>>
  /\ UNCHANGED detector
  /\ UNCHANGED pages

\* parseLarryResponse(response) is called and returns
Parse ==
  /\ pc = "compose"
  /\ \E clock \in Clocks(clockReads(response)) :
       result' = parseLarryResponse(response, clock)
  /\ pc' = "parsed"
  /\ UNCHANGED <<chunks, response, earlier>>
  /\ UNCHANGED detector
  /\ UNCHANGED pages

\* The next reply
NextReply ==
  /\ pc = "parsed"
  /\ chunks' = <<>>
  /\ response' = <<>>
  /\ pc' = "compose"
  /\ result' = Null
  /\ UNCHANGED earlier
  /\ UNCHANGED detector
  /\ UNCHANGED pages

Next == ComposeClarity \/ Parse \/ NextReply
Spec == Init /\ [][Next]_vars

NextFields == ComposeFields \/ Parse \/ NextReply
SpecFields == Init /\ [][NextFields]_vars

NextItems == ComposeItems \/ Parse \/ NextReply
SpecItems == Init /\ [][NextItems]_vars

NextParked == ComposeParked \/ Parse \/ NextReply
SpecParked == Init /\ [][NextParked]_vars

\* The next reply of the session, the call that just returned being the one
\* that later calls are compared with. (After NextReply the call kept so far
\* stays, so that the call kept is any of the earlier calls of the session.)
Remember ==
  /\ pc = "parsed"
  /\ earlier' = [reply |-> response, result |-> result]
  /\ chunks' = <<>>
  /\ response' = <<>>
  /\ pc' = "compose"
  /\ result' = Null
  /\ UNCHANGED detector
  /\ UNCHANGED pages

NextSession == ComposeSession \/ Parse \/ NextReply \/ Remember
SpecSession == Init /\ [][NextSession]_vars

(***************************************************************************)
(* Value({e : x \in {d}}) is e with x standing for the value of d, which   *)
(* is computed once however often e mentions x.                            *)
(***************************************************************************)
Value(S) == CHOOSE v \in S : TRUE

(***************************************************************************)
(* Natural numbers of any size, for the 53-bit significands of the Number  *)
(* type and their products: a sequence of digits in base 2^14, the least   *)
(* significant first, without leading zeros (0 is the empty sequence).     *)
(***************************************************************************)
BASE == 16384
BASEBITS == 14

Zero == <<>>
One == <<1>>

\* the sequence without its most significant zeros
Trim(a0) ==
  Value({SubSeq(a, 1, CHOOSE n \in 0..Len(a) :
                        /\ n = 0 \/ a[n] # 0
                        /\ \A k \in (n + 1)..Len(a) : a[k] = 0)
         : a \in {a0}})

Digit14(a, k) == IF k \in 1..Len(a) THEN a[k] ELSE 0

\* the digits of a natural number below 2^31
FromNat(n) == Trim(<<n % BASE, (n \div BASE) % BASE, n \div (BASE * BASE)>>)

\* the carry into the digit k of a + b: some digit below it overflows and
\* every digit between them passes a carry on
CarryIn(a, b, k) ==
  IF \E j \in 1..(k - 1) :
       /\ Digit14(a, j) + Digit14(b, j) >= BASE
       /\ \A i \in (j + 1)..(k - 1) : Digit14(a, i) + Digit14(b, i) >= BASE - 1
    THEN 1 ELSE 0

AddN(a0, b0) ==
  Value({Trim([k \in 1..(Max({Len(a), Len(b)}) + 1) |->
                 (Digit14(a, k) + Digit14(b, k) + CarryIn(a, b, k)) % BASE])
         : a \in {a0}, b \in {b0}})

\* -1, 0 or 1 as a is less than, equal to or greater than b
CmpN(a0, b0) ==
  Value({IF Len(a) # Len(b) THEN (IF Len(a) < Len(b) THEN -1 ELSE 1)
         ELSE IF a = b THEN 0
         ELSE LET top == CHOOSE k \in 1..Len(a) :
                           a[k] # b[k] /\ \A j \in (k + 1)..Len(a) : a[j] = b[j]
              IN  IF a[top] < b[top] THEN -1 ELSE 1
         : a \in {a0}, b \in {b0}})

\* the borrow from the digit k of a - b: some digit below it is short and
\* every digit between them has nothing to spare
BorrowIn(a, b, k) ==
  IF \E j \in 1..(k - 1) :
       /\ Digit14(a, j) < Digit14(b, j)
       /\ \A i \in (j + 1)..(k - 1) : Digit14(a, i) <= Digit14(b, i)
    THEN 1 ELSE 0

\* a - b, for a >= b
SubN(a0, b0) ==
  Value({Trim([k \in 1..Len(a) |->
                 (Digit14(a, k) - Digit14(b, k) - BorrowIn(a, b, k)) % BASE])
         : a \in {a0}, b \in {b0}})

\* a * n for 0 <= n <= BASE: the low and the high digits of the products
MulSmall(a0, n0) ==
  Value({AddN([k \in 1..Len(a) |-> (a[k] * n) % BASE],
              <<0>> \o [k \in 1..Len(a) |-> (a[k] * n) \div BASE])
         : a \in {a0}, n \in {n0}})

\* a * BASE^w
ShiftDigits(a0, w) ==
  Value({IF a = <<>> THEN <<>> ELSE [k \in 1..w |-> 0] \o a : a \in {a0}})

\* a times the digits of b from the k-th upward
RECURSIVE MulRows(_, _, _)
MulRows(a, b, k) ==
  IF k > Len(b) THEN <<>>
  ELSE AddN(MulSmall(a, b[k]), ShiftDigits(MulRows(a, b, k + 1), 1))

MulN(a0, b0) == Value({MulRows(a, b, 1) : a \in {a0}, b \in {b0}})

\* quotient (digits, the least significant first) and remainder by n of the
\* digits of a from the k-th upward
RECURSIVE DivFrom(_, _, _)
DivFrom(a, n, k) ==
  IF k > Len(a) THEN [q |-> <<>>, r |-> 0]
  ELSE CHOOSE d \in {[q |-> <<(hi.r * BASE + a[k]) \div n>> \o hi.q,
                      r |-> (hi.r * BASE + a[k]) % n]
                     : hi \in {DivFrom(a, n, k + 1)}} : TRUE

\* quotient and remainder of a by n, for 0 < n < 2^16
DivSmall(a0, n0) ==
  Value({Value({[q |-> Trim(d.q), r |-> d.r] : d \in {DivFrom(a, n, 1)}})
         : a \in {a0}, n \in {n0}})

\* a * 2^k
ShiftLeft(a0, k0) ==
  Value({Trim([i \in 1..(Len(a) + (k \div BASEBITS) + 1) |->
                 IF i <= (k \div BASEBITS) THEN 0
                 ELSE ((Digit14(a, i - (k \div BASEBITS)) * (2 ^ (k % BASEBITS))) % BASE)
                        + (Digit14(a, i - (k \div BASEBITS) - 1)
                             \div (2 ^ (BASEBITS - (k % BASEBITS))))])
         : a \in {a0}, k \in {k0}})

\* floor(a / 2^k)
ShiftRight(a0, k0) ==
  Value({Trim([i \in 1..Len(a) |->
                 (Digit14(a, i + (k \div BASEBITS)) \div (2 ^ (k % BASEBITS)))
                   + ((Digit14(a, i + (k \div BASEBITS) + 1) % (2 ^ (k % BASEBITS)))
                        * (2 ^ (BASEBITS - (k % BASEBITS))))])
         : a \in {a0}, k \in {k0}})

\* the number of bits of a: 0 for 0, else the n with 2^(n-1) <= a < 2^n
BitLength(a0) ==
  Value({IF a = <<>> THEN 0
         ELSE BASEBITS * (Len(a) - 1) + Min({n \in 1..BASEBITS : a[Len(a)] < 2 ^ n})
         : a \in {a0}})

IsOdd(a0) == Value({a # <<>> /\ a[1] % 2 = 1 : a \in {a0}})

(***************************************************************************)
(* The Number type: IEEE 754 binary64, round to nearest, ties to even.     *)
(* A finite number is (-1)^neg * man * 2^exp with man < 2^53 and           *)
(* exp >= -1074, in the one form where man >= 2^52 unless exp = -1074      *)
(* (subnormal numbers and zero).                                           *)
(***************************************************************************)
PRECISION == 53
MINEXP == -1074
MAXEXP == 971

NaN == [cls |-> "NaN", neg |-> FALSE, man |-> <<>>, exp |-> 0]
Infinity(neg) == [cls |-> "Infinity", neg |-> neg, man |-> <<>>, exp |-> 0]
Finite(neg, man, exp) == [cls |-> "finite", neg |-> neg, man |-> man, exp |-> exp]

PlusZero == Finite(FALSE, <<>>, MINEXP)

IsNaN(x) == x.cls = "NaN"
IsZero(x) == x.cls = "finite" /\ x.man = <<>>

\* kept, the digits of m from the place 2^drop upward, plus one where the
\* digits below it, with sticky, are more than half a unit of that place or a
\* half and kept is odd
RoundedUp(m, drop, kept, sticky) ==
  LET low == IF drop <= 0 THEN <<>> ELSE SubN(m, ShiftLeft(kept, drop))
      half == IF drop <= 0 THEN <<1>> ELSE ShiftLeft(One, drop - 1)
  IN  Value({IF drop > 0 /\ (c = 1 \/ (c = 0 /\ (sticky \/ IsOdd(kept))))
               THEN AddN(kept, One) ELSE kept
             : c \in {CmpN(low, half)}})

\* The Number nearest to (-1)^neg * (m + f) * 2^e, where m is a natural number
\* and 0 <= f < 1, with f # 0 exactly when sticky (f itself is not needed:
\* m has bits enough for f never to decide alone).
Round(neg0, m0, e0, sticky0) ==
  Value({
    Value({
      Value({
        Value({
          IF BitLength(man) > PRECISION
            THEN (IF q + 1 > MAXEXP THEN Infinity(neg)
                  ELSE Finite(neg, ShiftRight(man, 1), q + 1))
          ELSE IF man = <<>> THEN Finite(neg, <<>>, MINEXP)
          ELSE IF q > MAXEXP THEN Infinity(neg)
          ELSE Finite(neg, man, q)
          : man \in {RoundedUp(m, q - e, kept, sticky)}})
        : kept \in {IF q - e <= 0 THEN ShiftLeft(m, e - q) ELSE ShiftRight(m, q - e)}})
      : q \in {Max({e + BitLength(m) - PRECISION, MINEXP})}})
    : neg \in {neg0}, m \in {m0}, e \in {e0}, sticky \in {sticky0}})

\* the Number of a natural number below 2^53
Integer(n) == Round(FALSE, FromNat(n), 0, FALSE)

\* Bits kept below the last place of a result before it is rounded. (A term
\* of a sum more than GUARD binary places below the other is less than a
\* quarter of the unit in the last place of the other: the sum is the other.)
GUARD == 70

\* x + y for finite x and y that are not zero, mx and my their significands
\* in units of 2^e
plusFinite(x, y, e, mx, my) ==
  IF x.neg = y.neg THEN Round(x.neg, AddN(mx, my), e, FALSE)
  ELSE Value({IF c = 0 THEN PlusZero
              ELSE IF c = 1 THEN Round(x.neg, SubN(mx, my), e, FALSE)
              ELSE Round(y.neg, SubN(my, mx), e, FALSE)
              : c \in {CmpN(mx, my)}})

\* x + y
plus(x0, y0) ==
  Value({
    IF IsNaN(x) \/ IsNaN(y) THEN NaN
    ELSE IF x.cls = "Infinity" /\ y.cls = "Infinity"
      THEN (IF x.neg = y.neg THEN x ELSE NaN)
    ELSE IF x.cls = "Infinity" THEN x
    ELSE IF y.cls = "Infinity" THEN y
    ELSE IF IsZero(x) /\ IsZero(y) THEN Finite(x.neg /\ y.neg, <<>>, MINEXP)
    ELSE IF IsZero(x) THEN y
    ELSE IF IsZero(y) THEN x
    ELSE IF x.exp - y.exp > GUARD THEN x
    ELSE IF y.exp - x.exp > GUARD THEN y
    ELSE Value({plusFinite(x, y, Min({x.exp, y.exp}), mx, my)
                : mx \in {ShiftLeft(x.man, x.exp - Min({x.exp, y.exp}))},
                  my \in {ShiftLeft(y.man, y.exp - Min({x.exp, y.exp}))}})
    : x \in {x0}, y \in {y0}})

negate(x0) == Value({IF IsNaN(x) THEN NaN ELSE [x EXCEPT !.neg = ~x.neg] : x \in {x0}})

\* x - y
minus(x, y) == plus(x, negate(y))

\* x * y
times(x0, y0) ==
  Value({
    IF IsNaN(x) \/ IsNaN(y) THEN NaN
    ELSE IF x.cls = "Infinity" \/ y.cls = "Infinity"
      THEN (IF IsZero(x) \/ IsZero(y) THEN NaN ELSE Infinity(x.neg # y.neg))
    ELSE Round(x.neg # y.neg, MulN(x.man, y.man), x.exp + y.exp, FALSE)
    : x \in {x0}, y \in {y0}})

\* x / n for the Number of a natural number n < 2^16 (n is `scores.length`)
dividedBy(x0, n0) ==
  Value({
    IF IsNaN(x) THEN NaN
    ELSE IF n = 0 THEN (IF IsZero(x) THEN NaN ELSE Infinity(x.neg))
    ELSE IF x.cls = "Infinity" THEN x
    ELSE Value({Round(x.neg, d.q, x.exp - GUARD, d.r # 0)
                : d \in {DivSmall(ShiftLeft(x.man, GUARD), n)}})
    : x \in {x0}, n \in {n0}})

\* the greatest d with d * d <= p, for p < 2^28
SqrtSmall(p) ==
  Value({h * 128 + Cardinality({e \in 1..127 : (h * 128 + e) * (h * 128 + e) <= p})
         : h \in {Cardinality({h \in 1..127 : (h * 128) * (h * 128) <= p})}})

\* (2 * root * BASE + d) * d: what the digit d takes from the remainder
Taken(root, d) == MulSmall(AddN(ShiftDigits(MulSmall(root, 2), 1), FromNat(d)), d)

\* Candidates tried below the estimate of a digit of the root. (The estimate
\* divides by the leading digit of the root alone, which is 2^13 at least: it
\* is the digit or a few units more.)
WINDOW == 8

\* The next digit of the root, for the root of the digits above and rem1,
\* what they left followed by the next two digits: the greatest d with
\* Taken(root, d) <= rem1.
NextDigit(root, rem1) ==
  IF root = <<>> THEN SqrtSmall(Digit14(rem1, 2) * BASE + Digit14(rem1, 1))
  ELSE Value({
         Value({est - Cardinality({c \in 0..(WINDOW - 1) :
                                     est - c > 0 /\ CmpN(Taken(root, est - c), rem1) = 1})
                : est \in {IF Len(e) > 1 THEN BASE - 1 ELSE Digit14(e, 1)}})
         : e \in {DivSmall(SubSeq(rem1, Len(root) + 1, Len(rem1)),
                           2 * root[Len(root)]).q}})

\* The square root of a, two digits of a for one digit of the root: the root
\* of the j leading pairs of digits of a, out of n pairs, and what they leave.
RECURSIVE SqrtPairs(_, _, _)
SqrtPairs(a, n, j) ==
  IF j = 0 THEN [root |-> <<>>, rem |-> <<>>]
  ELSE CHOOSE r \in
         {Value({
            Value({[root |-> Trim(<<d>> \o up.root), rem |-> SubN(rem1, Taken(up.root, d))]
                   : d \in {NextDigit(up.root, rem1)}})
            : rem1 \in {Trim(<<Digit14(a, 2 * (n - j) + 1), Digit14(a, 2 * (n - j) + 2)>>
                               \o up.rem)}})
          : up \in {SqrtPairs(a, n, j - 1)}} : TRUE

\* root and rem with a = root^2 + rem <= (root + 1)^2 - 1, for a whose
\* leading pair of digits is 2^26 at least
SqrtN(a0) == Value({SqrtPairs(a, (Len(a) + 1) \div 2, (Len(a) + 1) \div 2) : a \in {a0}})

\* Math.sqrt(x): the root of man * 2^k, with k bits enough for a root of
\* PRECISION + 3 bits and exp - k even
sqrt(x0) ==
  Value({
    IF IsNaN(x) THEN NaN
    ELSE IF IsZero(x) THEN x
    ELSE IF x.neg THEN NaN
    ELSE IF x.cls = "Infinity" THEN x
    ELSE Value({
           Value({Round(FALSE, r.root, (x.exp - k) \div 2, r.rem # <<>>)
                  : r \in {SqrtN(ShiftLeft(x.man, k))}})
           : k \in {LET k0 == 2 * (PRECISION + 3) - BitLength(x.man)
                    IN  IF (x.exp - k0) % 2 = 0 THEN k0 ELSE k0 - 1}})
    : x \in {x0}})

\* Math.pow(x, 2), taken as the correctly rounded square
pow2(x0) == Value({times(x, x) : x \in {x0}})

\* Math.abs(x)
abs(x0) == Value({IF IsNaN(x) THEN NaN ELSE [x EXCEPT !.neg = FALSE] : x \in {x0}})

\* x > y
greaterThan(x0, y0) ==
  Value({
    IF IsNaN(x) \/ IsNaN(y) THEN FALSE
    ELSE IF IsZero(x) /\ IsZero(y) THEN FALSE
    ELSE IF x.neg # y.neg THEN y.neg
    ELSE LET above ==
               IF x.cls = "Infinity" \/ y.cls = "Infinity"
                 THEN x.cls = "Infinity" /\ y.cls # "Infinity"
               ELSE \/ x.exp > y.exp
                    \/ x.exp = y.exp /\ CmpN(x.man, y.man) = 1
             below ==
               IF x.cls = "Infinity" \/ y.cls = "Infinity"
                 THEN y.cls = "Infinity" /\ x.cls # "Infinity"
               ELSE \/ x.exp < y.exp
                    \/ x.exp = y.exp /\ CmpN(x.man, y.man) = -1
         IN  IF x.neg THEN below ELSE above
    : x \in {x0}, y \in {y0}})

\* a / 10^p and whether a digit was lost
RECURSIVE DivTens(_, _, _)
DivTens(a, p0, lost) ==
  Value({
    IF p = 0 THEN [q |-> a, lost |-> lost]
    ELSE Value({DivTens(d.q, IF p >= 4 THEN p - 4 ELSE 0, lost \/ d.r # 0)
                : d \in {DivSmall(a, 10 ^ (IF p >= 4 THEN 4 ELSE p))}})
    : p \in {p0}})

\* the Number of the decimal literal `n e-p`, as the engine reads it: the
\* Number nearest to n / 10^p
Literal(n, p) ==
  Value({Round(FALSE, d.q, -(GUARD + 4 * p), d.lost)
         : d \in {DivTens(ShiftLeft(FromNat(n), GUARD + 4 * p), p, FALSE)}})

(***************************************************************************)
(* detectAnomalies (src/lib/ai-service.ts).                                *)
(***************************************************************************)
\* a record without csio_score
undefined == [cls |-> "undefined", neg |-> FALSE, man |-> <<>>, exp |-> 0]

\* o.csio_score, without the default
scoreOfAbsentAsNaN(o) ==
  IF o.csio_score.cls = "undefined" THEN NaN ELSE o.csio_score

\* o.csio_score || 0: undefined, NaN and zero are falsy
scoreOf(o) ==
  Value({IF s.cls = "undefined" \/ IsNaN(s) \/ IsZero(s) THEN PlusZero ELSE s
         : s \in {o.csio_score}})

\* const scores = opportunities.map(o => o.csio_score || 0)
scoresOf(opps0) ==
  Value({[k \in 1..Len(opps) |-> scoreOf(opps[k])] : opps \in {opps0}})

\* scores.reduce((a, b) => a + b, 0), over the first k scores
RECURSIVE sumOf(_, _)
sumOf(scores, k) ==
  IF k = 0 THEN PlusZero ELSE plus(sumOf(scores, k - 1), scores[k])

\* const mean = scores.reduce(...) / scores.length
meanOf(scores) == dividedBy(sumOf(scores, Len(scores)), Len(scores))

\* scores.reduce((sum, s) => sum + Math.pow(s - mean, 2), 0), over the first k
RECURSIVE sumOfSquares(_, _, _)
sumOfSquares(scores, m, k) ==
  IF k = 0 THEN PlusZero
  ELSE plus(sumOfSquares(scores, m, k - 1), pow2(minus(scores[k], m)))

\* const stdDev = Math.sqrt(scores.reduce(...) / scores.length)
stdDevOf(scores, m) ==
  sqrt(dividedBy(sumOfSquares(scores, m, Len(scores)), Len(scores)))

Two == Integer(2)

\* Math.abs(score - mean) > 2 * stdDev
isAnomaly(o, m, sd) ==
  greaterThan(abs(minus(scoreOf(o), m)), times(Two, sd))

\* (o.csio_score || 0) > mean ? "high_performer" : "needs_attention"
anomalyType(o, m) ==
  IF greaterThan(scoreOf(o), m) THEN "high_performer" ELSE "needs_attention"

\* {id, anomalyType}: the other fields dropped
withAnomalyTypeIdOnly(o, m) == [id |-> o.id, anomalyType |-> anomalyType(o, m)]

\* {...o, anomalyType}: every field of o, and anomalyType
withAnomalyType(o, m) ==
  [f \in DOMAIN o \cup {"anomalyType"} |->
     IF f = "anomalyType" THEN anomalyType(o, m) ELSE o[f]]

\* the records the filter keeps
anomaliesOf(opps, m, sd) ==
  LET flagged(o) == isAnomaly(o, m, sd)
  IN  SelectSeq(opps, flagged)

\* the anomalies in the reverse order
detectAnomaliesReversed(opps0) ==
  Value({
    Value({
      Value({
        Value({[mean |-> m, stdDev |-> sd,
                anomalies |->
                  [k \in 1..Len(kept) |-> withAnomalyType(kept[Len(kept) + 1 - k], m)]]
               : kept \in {anomaliesOf(opps, m, sd)}})
        : sd \in {stdDevOf(scores, m)}})
      : m \in {meanOf(scores)}})
    : opps \in {opps0}, scores \in {scoresOf(opps0)}})

\* opportunities.filter(...).map(...), with the mean and the standard
\* deviation the call computed on its way
detectAnomalies(opps0) ==
  Value({
    Value({
      Value({
        Value({[mean |-> m, stdDev |-> sd,
                anomalies |-> [k \in 1..Len(kept) |-> withAnomalyType(kept[k], m)]]
               : kept \in {anomaliesOf(opps, m, sd)}})
        : sd \in {stdDevOf(scores, m)}})
      : m \in {meanOf(scores)}})
    : opps \in {opps0}, scores \in {scoresOf(opps0)}})

(***************************************************************************)
(* The scores of the records, as the Numbers their decimal literals stand  *)
(* for.                                                                    *)
(***************************************************************************)
Score01 == Literal(1, 1)
Score05 == Literal(5, 1)
Score09 == Literal(9, 1)
Score10 == Integer(1)
\* 0.1 * 2^-500 (3.054936363499605e-152)
ScoreTiny == [Score01 EXCEPT !.exp = @ - 500]
\* 0.3 * 2^-500 (9.164809090498814e-152)
ScoreTiny3 == [Literal(3, 1) EXCEPT !.exp = @ - 500]

\* records with and without score, some far from the others
ScoresOutliers == {undefined, Score05, Score10}
\* scores whose deviation meets two standard deviations
ScoresBoundary == {Score01, Score05, Score09, Score10}
\* scores near the least positive Numbers
ScoresTiny == {undefined, ScoreTiny, ScoreTiny3}

(***************************************************************************)
(* The state machine of the detector: the collection of opportunities      *)
(* grows record by record, detectAnomalies is called on it, and new data   *)
(* replaces it.                                                            *)
(***************************************************************************)
\* a record joins the collection
AddOpportunity(scores, max) ==
  /\ mean = Null
  /\ Len(opportunities) < max
  /\ \E s \in scores :
       opportunities' =
         Append(opportunities,
                [id |-> Len(opportunities) + 1, name |-> "demo", csio_score |-> s])
  /\ UNCHANGED <<mean, stdDev, anomalies>>
  /\ UNCHANGED parser
  /\ UNCHANGED pages

AddOutlier == AddOpportunity(ScoresOutliers, MaxRecords)
AddBoundary == AddOpportunity(ScoresBoundary, MaxBoundaryRecords)
AddTiny == AddOpportunity(ScoresTiny, MaxTinyRecords)

\* detectAnomalies(opportunities) is called and returns
Detect ==
  /\ mean = Null
  /\ \E d \in {detectAnomalies(opportunities)} :
       /\ mean' = d.mean
       /\ stdDev' = d.stdDev
       /\ anomalies' = d.anomalies
  /\ UNCHANGED opportunities
  /\ UNCHANGED parser
  /\ UNCHANGED pages

\* the collection is replaced
NewData ==
  /\ mean # Null
  /\ opportunities' = <<>>
  /\ mean' = Null
  /\ stdDev' = Null
  /\ anomalies' = Null
  /\ UNCHANGED parser
  /\ UNCHANGED pages

NextDetector == AddOutlier \/ Detect \/ NewData
SpecDetector == Init /\ [][NextDetector]_vars

NextBoundary == AddBoundary \/ Detect \/ NewData
SpecBoundary == Init /\ [][NextBoundary]_vars

NextTiny == AddTiny \/ Detect \/ NewData
SpecTiny == Init /\ [][NextTiny]_vars

(***************************************************************************)
(* The chat page (Home, app/page.tsx): the user types, sendMessage posts   *)
(* the text and awaits the reply, and the reply or the failure of the      *)
(* request ends the call.                                                  *)
(***************************************************************************)
\* data.response || "I couldn't process that. Let's try again."
FallbackReply ==
  <<"I", " ", "c", "o", "u", "l", "d", "n", "'", "t", " ", "p", "r", "o", "c", "e", "s", "s", " ", "t", "h", "a", "t", ".", " ", "L", "e", "t", "'", "s", " ", "t", "r", "y", " ", "a", "g", "a", "i", "n", ".">>

ConnectionTrouble ==
  <<"S", "o", "r", "r", "y", ",", " ", "I", " ", "h", "a", "d", " ", "t", "r", "o", "u", "b", "l", "e", " ", "c", "o", "n", "n", "e", "c", "t", "i", "n", "g", ".", " ", "T", "h", "e", " ", "s", "e", "r", "v", "e", "r", " ", "m", "i", "g", "h", "t", " ", "b", "e", " ", "s", "t", "a", "r", "t", "i", "n", "g", " ", "u", "p", " ", "-", " ", "t", "r", "y", " ", "a", "g", "a", "i", "n", " ", "i", "n", " ", "a", " ", "m", "o", "m", "e", "n", "t", ".">>

\* what the user types: nothing, a blank, a text
Inputs == {<<>>, <<" ">>, <<"h", "i">>}

\* data.response of the replies of the server: none, text alone, text with
\* clarity and parked ideas, text with other fields
Responses ==
  {<<>>, Hello, Hello \o DELIM \o ItemClarity \o ItemParkedList,
   Hello \o DELIM \o ItemQuestions \o ItemWhat}

\* session data that keeps the parked ideas it had
sessionDataOfMerged(prev, parsed) ==
  [clarity |-> parsed.clarity, stats |-> parsed.stats,
   parkedIdeas |-> prev.parkedIdeas \o parsed.parkedIdeas]

\* setSessionData({clarity: parsed.clarity, stats: parsed.stats, parkedIdeas: ...})
sessionDataOf(prev, parsed) ==
  [clarity |-> parsed.clarity, stats |-> parsed.stats, parkedIdeas |-> parsed.parkedIdeas]

userMessage(text) == [kind |-> "user", content |-> text, displayContent |-> text]

assistantMessage(fullResponse, parsed) ==
  [kind |-> "assistant", content |-> fullResponse, displayContent |-> parsed.message]

errorMessage ==
  [kind |-> "error", content |-> ConnectionTrouble, displayContent |-> ConnectionTrouble]

\* onChange={setInput}, of an input box that is disabled while isLoading
SetInput ==
  /\ ~isLoading
  /\ \E text \in Inputs \ {input} : input' = text
  /\ UNCHANGED <<messages, isLoading, sessionData, request, atSend>>
  /\ UNCHANGED <<parser, detector, views, services, smartInput, notes>>

\* sendMessage, up to the await of the fetch
Send ==
  /\ trim(input) # <<>>
  /\ ~isLoading
  /\ Len(messages) + 2 <= MaxMessages
  /\ messages' = Append(messages, userMessage(input))
  /\ input' = <<>>
  /\ isLoading' = TRUE
  /\ request' = [message |-> input]
  /\ atSend' = [input |-> input, messages |-> messages, isLoading |-> isLoading,
                sessionData |-> sessionData]
  /\ UNCHANGED sessionData
  /\ UNCHANGED <<parser, detector, views, services, smartInput, notes>>

\* a failure that clears the session data
FailClearingSession ==
  /\ request # Null
  /\ messages' = Append(messages, errorMessage)
  /\ isLoading' = FALSE
  /\ request' = Null
  /\ sessionData' =
       [clarity |-> DefaultClarity, stats |-> DefaultStats, parkedIdeas |-> <<>>]
  /\ UNCHANGED <<input, atSend>>
  /\ UNCHANGED <<parser, detector, views, services, smartInput, notes>>

\* sendMessage, from the reply on: the session data and the message of the
\* assistant
Respond ==
  /\ request # Null
  /\ \E r \in Responses :
       \E fullResponse \in {IF r = <<>> THEN FallbackReply ELSE r} :
         \E clock \in Clocks(clockReads(fullResponse)) :
           \E parsed \in {parseLarryResponse(fullResponse, clock)} :
             /\ sessionData' = sessionDataOf(sessionData, parsed)
             /\ messages' = Append(messages, assistantMessage(fullResponse, parsed))
  /\ isLoading' = FALSE
  /\ request' = Null
  /\ UNCHANGED <<input, atSend>>
  /\ UNCHANGED <<parser, detector, views, services, smartInput, notes>>

\* sendMessage, from the exception of fetch or of response.json() on
Fail ==
  /\ request # Null
  /\ messages' = Append(messages, errorMessage)
  /\ isLoading' = FALSE
  /\ request' = Null
  /\ UNCHANGED <<input, sessionData, atSend>>
  /\ UNCHANGED <<parser, detector, views, services, smartInput, notes>>

NextChat == SetInput \/ Send \/ Respond \/ Fail
SpecChat == Init /\ [][NextChat]_vars

(***************************************************************************)
(* OpportunityGrid and OpportunityCharts: the page hands both its dataset; *)
(* an effect of each runs when the dataset changes, calls detectAnomalies  *)
(* (and chartInsightsHandler) and stores what the calls resolve with.      *)
(***************************************************************************)
Record(id, score) == [id |-> id, name |-> "demo", csio_score |-> score]

\* five records at 1.0 and one without score
DataLow == [k \in 1..6 |-> Record(k, IF k = 3 THEN undefined ELSE Score10)]
\* five records without score and one at 1.0
DataHigh == [k \in 1..6 |-> Record(k, IF k = 5 THEN Score10 ELSE undefined)]

Datasets == {<<>>, DataLow, DataHigh}

\* what detectAnomalies resolves with, for each dataset
Resolved == [ds \in Datasets |-> detectAnomalies(ds).anomalies]

\* the value generateLocalInsights returns for the dataset (not computed here)
generateLocalInsights(opps) == [by |-> "generateLocalInsights", of |-> opps]

\* data.insights of the reply of the server (not computed here)
ServerInsights == [by |-> "server", of |-> <<>>]

\* result.map(item => ({id: item.id, anomalyType: item.anomalyType}))
anomalyInfo(res) ==
  [k \in 1..Len(res) |-> [id |-> res[k].id, anomalyType |-> res[k].anomalyType]]

\* the effect of the grid, run on empty data as well
gridEffectUnguarded(ds, show) ==
  IF show THEN Append(gridDetections, [of |-> ds, result |-> Resolved[ds]])
  ELSE gridDetections

\* useEffect(..., [data, showAnomalyHighlighting]) of OpportunityGrid: the
\* calls awaited after it has run
gridEffect(ds, show) ==
  IF show /\ Len(ds) > 0
    THEN Append(gridDetections, [of |-> ds, result |-> Resolved[ds]])
    ELSE gridDetections

\* useEffect(..., [opportunities]) of OpportunityCharts: loadInsights() and
\* loadAnomalies()
chartsEffect(ds) ==
  IF Len(ds) > 0
    THEN /\ isLoadingInsights' = TRUE
         /\ chartsRequests' = Append(chartsRequests, [of |-> ds])
         /\ chartsDetections' = Append(chartsDetections, [of |-> ds, result |-> Resolved[ds]])
    ELSE UNCHANGED <<isLoadingInsights, chartsRequests, chartsDetections>>

\* the page renders with another dataset: the effects of both components run
SetData ==
  /\ Len(gridDetections) < MaxPending
  /\ Len(chartsDetections) < MaxPending
  /\ Len(chartsRequests) < MaxPending
  /\ \E ds \in Datasets \ {data} :
       /\ data' = ds
       /\ gridDetections' = gridEffect(ds, showAnomalyHighlighting)
       /\ chartsEffect(ds)
  /\ UNCHANGED <<showAnomalyHighlighting, gridAnomalies, chartsAnomalies, insights>>
  /\ UNCHANGED <<parser, detector, chat, services, smartInput, notes>>

\* the grid renders with the other value of showAnomalyHighlighting
SetHighlighting ==
  /\ Len(gridDetections) < MaxPending
  /\ showAnomalyHighlighting' = ~showAnomalyHighlighting
  /\ gridDetections' = gridEffect(data, ~showAnomalyHighlighting)
  /\ UNCHANGED <<data, gridAnomalies, chartsAnomalies, chartsDetections, insights,
                 isLoadingInsights, chartsRequests>>
  /\ UNCHANGED <<parser, detector, chat, services, smartInput, notes>>

\* detectAnomalies(data).then(...) of the grid, promises resolving in order
GridStore ==
  /\ gridDetections # <<>>
  /\ gridAnomalies' = anomalyInfo(Head(gridDetections).result)
  /\ gridDetections' = Tail(gridDetections)
  /\ UNCHANGED <<data, showAnomalyHighlighting, chartsAnomalies, chartsDetections,
                 insights, isLoadingInsights, chartsRequests>>
  /\ UNCHANGED <<parser, detector, chat, services, smartInput, notes>>

\* loadAnomalies after its await: setAnomalies(result)
ChartsStore ==
  /\ chartsDetections # <<>>
  /\ chartsAnomalies' = Head(chartsDetections).result
  /\ chartsDetections' = Tail(chartsDetections)
  /\ UNCHANGED <<data, showAnomalyHighlighting, gridAnomalies, gridDetections,
                 insights, isLoadingInsights, chartsRequests>>
  /\ UNCHANGED <<parser, detector, chat, services, smartInput, notes>>

\* loadInsights after its await: chartInsightsHandler has resolved with the
\* insights of the server, with none, or with the local ones
InsightsStore ==
  /\ \E k \in 1..Len(chartsRequests) :
       /\ \E res \in {ServerInsights, <<>>, generateLocalInsights(chartsRequests[k].of)} :
            insights' = res
       /\ chartsRequests' =
            SubSeq(chartsRequests, 1, k - 1) \o SubSeq(chartsRequests, k + 1, Len(chartsRequests))
  /\ isLoadingInsights' = FALSE
  /\ UNCHANGED <<data, showAnomalyHighlighting, gridAnomalies, gridDetections,
                 chartsAnomalies, chartsDetections>>
  /\ UNCHANGED <<parser, detector, chat, services, smartInput, notes>>

NextViews == SetData \/ SetHighlighting \/ GridStore \/ ChartsStore \/ InsightsStore
SpecViews == Init /\ [][NextViews]_vars

(***************************************************************************)
(* The AI handlers (lib/ai-service.ts): each posts its input, and resolves *)
(* with what the server answers or with what its local fallback makes of   *)
(* the input.                                                              *)
(***************************************************************************)
UpperCase ==
  <<"A", "B", "C", "D", "E", "F", "G", "H", "I", "J", "K", "L", "M",
    "N", "O", "P", "Q", "R", "S", "T", "U", "V", "W", "X", "Y", "Z">>
LowerCase ==
  <<"a", "b", "c", "d", "e", "f", "g", "h", "i", "j", "k", "l", "m",
    "n", "o", "p", "q", "r", "s", "t", "u", "v", "w", "x", "y", "z">>

\* String.prototype.toLowerCase, on the letters A to Z
toLowerCase(s) ==
  [k \in 1..Len(s) |->
     IF \E j \in 1..26 : UpperCase[j] = s[k]
       THEN LowerCase[CHOOSE j \in 1..26 : UpperCase[j] = s[k]]
       ELSE s[k]]

IWantTo == <<"i", " ", "w", "a", "n", "t", " ", "t", "o">>
INeedTo == <<"i", " ", "n", "e", "e", "d", " ", "t", "o">>
TheProblemIs == <<"t", "h", "e", " ", "p", "r", "o", "b", "l", "e", "m", " ", "i", "s">>
MyTarget == <<"m", "y", " ", "t", "a", "r", "g", "e", "t">>
MyAudience == <<"m", "y", " ", "a", "u", "d", "i", "e", "n", "c", "e">>
SuccessWould == <<"s", "u", "c", "c", "e", "s", "s", " ", "w", "o", "u", "l", "d">>
IThink == <<"i", " ", "t", "h", "i", "n", "k">>
Customers == <<"c", "u", "s", "t", "o", "m", "e", "r", "s">>

getLocalSuggestion(userInput) ==
  LET lowerInput == toLowerCase(userInput)
  IN  IF includes(lowerInput, IWantTo) \/ includes(lowerInput, INeedTo)
        THEN " solve this problem because..."
      ELSE IF includes(lowerInput, TheProblemIs) THEN " and it affects..."
      ELSE IF includes(lowerInput, MyTarget) \/ includes(lowerInput, MyAudience)
        THEN " who currently struggle with..."
      ELSE IF includes(lowerInput, SuccessWould) THEN " look like achieving..."
      ELSE IF includes(lowerInput, IThink) THEN ", but I'm not sure about..."
      ELSE IF includes(lowerInput, Customers) THEN " are currently solving this by..."
      ELSE ""

\* the value extractLocalOpportunity returns for the text (not computed here)
extractLocalOpportunity(text) == [by |-> "extractLocalOpportunity", of |-> text]

\* the value generateLocalDiagram returns for the text and the type (not
\* computed here)
generateLocalDiagram(text, type) ==
  [by |-> "generateLocalDiagram", of |-> text, type |-> type]

\* the texts typed into the smart text area
UserInputs ==
  { <<"s", "h", "o", "r", "t">>,
    <<"h", "e", "l", "l", "o", " ", "w", "o", "r", "l", "d">>,
    <<"I", " ", "T", "H", "I", "N", "K", " ", "s", "o">>,
    <<"c", "u", "s", "t", "o", "m", "e", "r", "s", "!">>,
    IWantTo \o <<" ">> \o IThink }

\* the texts pasted or drawn
PastedTexts == {<<>>, <<"A", "I", "\n", "a", "p", "p">>, <<"a", "b", ".", "c", "d">>}

DiagramTypes == {"flowchart", "mindmap"}

\* what response.json() resolves with: null, an object without the field
\* read, an object with it
Bodies ==
  { Null,
    [has |-> FALSE, suggestion |-> "", insights |-> <<>>],
    [has |-> TRUE, suggestion |-> " and more", insights |-> <<"insight">>] }

\* the calls of the four handlers
CallsOf(handler) ==
  CASE handler = "smartTextAreaHandler" ->
         {[handler |-> handler, input |-> [userInput |-> u]] : u \in UserInputs}
    [] handler = "smartPasteHandler" ->
         {[handler |-> handler, input |-> [clipboardText |-> t]] : t \in PastedTexts}
    [] handler = "textToDiagramHandler" ->
         {[handler |-> handler, input |-> [text |-> t, diagramType |-> ty]] :
            t \in PastedTexts, ty \in DiagramTypes}
    [] handler = "chartInsightsHandler" ->
         {[handler |-> handler, input |-> [opportunities |-> ds]] : ds \in Datasets}

Handlers ==
  {"smartTextAreaHandler", "smartPasteHandler", "textToDiagramHandler",
   "chartInsightsHandler"}

\* the local fallback of the handler, on the input of the call
fallbackOf(c) ==
  CASE c.handler = "smartTextAreaHandler" -> getLocalSuggestion(c.input.userInput)
    [] c.handler = "smartPasteHandler" -> extractLocalOpportunity(c.input.clipboardText)
    [] c.handler = "textToDiagramHandler" ->
         generateLocalDiagram(c.input.text, c.input.diagramType)
    [] c.handler = "chartInsightsHandler" -> generateLocalInsights(c.input.opportunities)

fulfilled(value, after) == [state |-> "fulfilled", value |-> value, after |-> after]
rejected(error, after) == [state |-> "rejected", value |-> error, after |-> after]

\* the handler after `await response.json()` has given data: reading a field
\* of null throws inside the try, and the catch returns the fallback
decoded(c, body) ==
  CASE c.handler = "smartTextAreaHandler" ->
         IF body = Null THEN fallbackOf(c)
         ELSE IF body.has /\ body.suggestion # "" THEN body.suggestion ELSE ""
    [] c.handler = "chartInsightsHandler" ->
         IF body = Null THEN fallbackOf(c)
         ELSE IF body.has THEN body.insights ELSE <<>>
    [] OTHER -> body

\* a handler is called; smartTextAreaHandler returns "" at once for an input
\* of fewer than 10 characters
Call ==
  /\ aiCall = Null \/ aiSettled # Null
  /\ \E handler \in Handlers : \E c \in CallsOf(handler) :
       IF handler = "smartTextAreaHandler" /\ Len(c.input.userInput) < 10
         THEN /\ aiCall' = [handler |-> c.handler, input |-> c.input, at |-> "return"]
              /\ aiSettled' = fulfilled("", "short")
         ELSE /\ aiCall' = [handler |-> c.handler, input |-> c.input, at |-> "fetch"]
              /\ aiSettled' = Null
  /\ UNCHANGED <<parser, detector, chat, views, smartInput, notes>>

\* a throw in the try block that lets the promise reject
ThrowsRejecting(at, after) ==
  /\ aiCall # Null
  /\ aiSettled = Null
  /\ aiCall.at = at
  /\ aiCall' = [aiCall EXCEPT !.at = "catch"]
  /\ aiSettled' = rejected([error |-> after], after)
  /\ UNCHANGED <<parser, detector, chat, views, smartInput, notes>>

\* a throw in the try block: the catch returns the fallback
Throws(at, after) ==
  /\ aiCall # Null
  /\ aiSettled = Null
  /\ aiCall.at = at
  /\ aiCall' = [aiCall EXCEPT !.at = "catch"]
  /\ aiSettled' = fulfilled(fallbackOf(aiCall), after)
  /\ UNCHANGED <<parser, detector, chat, views, smartInput, notes>>

\* the request throws (fetch rejects)
FetchThrows == Throws("fetch", "threw")

\* fetch resolves: not OK returns the fallback, OK goes on to decode the body
FetchResolves ==
  /\ aiCall # Null
  /\ aiSettled = Null
  /\ aiCall.at = "fetch"
  /\ \E ok \in BOOLEAN :
       IF ~ok
         THEN /\ aiCall' = [aiCall EXCEPT !.at = "return"]
              /\ aiSettled' = fulfilled(fallbackOf(aiCall), "notOk")
         ELSE /\ aiCall' = [aiCall EXCEPT !.at = "json"]
              /\ UNCHANGED aiSettled
  /\ UNCHANGED <<parser, detector, chat, views, smartInput, notes>>

\* the body cannot be decoded (response.json() rejects)
JsonThrows == Throws("json", "undecodable")

\* the body is decoded
JsonResolves ==
  /\ aiCall # Null
  /\ aiSettled = Null
  /\ aiCall.at = "json"
  /\ \E body \in Bodies :
       aiSettled' = fulfilled(decoded(aiCall, body), "decoded")
  /\ aiCall' = [aiCall EXCEPT !.at = "return"]
  /\ UNCHANGED <<parser, detector, chat, views, smartInput, notes>>

NextServices == Call \/ FetchThrows \/ FetchResolves \/ JsonThrows \/ JsonResolves
SpecServices == Init /\ [][NextServices]_vars

(***************************************************************************)
(* SmartChatInput: typing restarts a timer of 800 ms; when the timer fires *)
(* fetchSuggestion asks smartTextAreaHandler for a suggestion and stores   *)
(* the answer; Tab takes the suggestion, Escape drops it, Enter sends.     *)
(***************************************************************************)
\* the texts the user leaves in the box: 0, 7, 15 and 17 characters
TypedTexts ==
  {<<>>, IThink, TheProblemIs \o <<" ">>, IThink \o <<" ">> \o Customers}

\* what smartTextAreaHandler may resolve with for the text: nothing, the
\* suggestion of the server, the local one
Suggestions(text) == {"", " and more", getLocalSuggestion(text)}

\* fetchSuggestion after the await: if (result && result.length > 0) ... else
stored(text, res) ==
  IF res # ""
    THEN /\ suggestion' = res
         /\ showSuggestion' = TRUE
         /\ suggestionFor' = text
    ELSE /\ suggestion' = ""
         /\ showSuggestion' = FALSE
         /\ suggestionFor' = Null

\* handleChange: the user edits the text
HandleChange ==
  /\ ~disabled
  /\ \E newValue \in TypedTexts \ {inputValue} :
       /\ inputValue' = newValue
       /\ debounceRef' = [text |-> newValue, disabled |-> disabled]
  /\ showSuggestion' = FALSE
  /\ UNCHANGED <<disabled, suggestion, isLoadingSuggestion, suggestionRequests,
                 suggestionFor>>
  /\ UNCHANGED <<parser, detector, chat, views, services, notes>>

\* the timer fires: fetchSuggestion(newValue) up to its await, with the
\* `disabled` of the render the timer was set in
TimerFires ==
  /\ debounceRef # Null
  /\ debounceRef' = Null
  /\ IF Len(debounceRef.text) < 15 \/ debounceRef.disabled
       THEN /\ suggestion' = ""
            /\ showSuggestion' = FALSE
            /\ suggestionFor' = Null
            /\ UNCHANGED <<isLoadingSuggestion, suggestionRequests>>
       ELSE /\ Len(suggestionRequests) < MaxPending
            /\ isLoadingSuggestion' = TRUE
            /\ suggestionRequests' = Append(suggestionRequests, [text |-> debounceRef.text])
            /\ UNCHANGED <<suggestion, showSuggestion, suggestionFor>>
  /\ UNCHANGED <<inputValue, disabled>>
  /\ UNCHANGED <<parser, detector, chat, views, services, notes>>

\* fetchSuggestion after its await: smartTextAreaHandler has resolved
SuggestionArrives ==
  /\ \E k \in 1..Len(suggestionRequests) :
       /\ \E res \in Suggestions(suggestionRequests[k].text) :
            stored(suggestionRequests[k].text, res)
       /\ suggestionRequests' =
            SubSeq(suggestionRequests, 1, k - 1)
              \o SubSeq(suggestionRequests, k + 1, Len(suggestionRequests))
  /\ isLoadingSuggestion' = FALSE
  /\ UNCHANGED <<inputValue, disabled, debounceRef>>
  /\ UNCHANGED <<parser, detector, chat, views, services, notes>>

\* handleKeyDown, Tab: onChange(value + suggestion), the suggestion appended
\* as one piece
KeyTab ==
  /\ ~disabled
  /\ showSuggestion /\ suggestion # ""
  /\ inputValue' = inputValue \o <<suggestion>>
  /\ suggestion' = ""
  /\ showSuggestion' = FALSE
  /\ suggestionFor' = Null
  /\ UNCHANGED <<disabled, isLoadingSuggestion, debounceRef, suggestionRequests>>
  /\ UNCHANGED <<parser, detector, chat, views, services, notes>>

\* handleKeyDown, Escape
KeyEscape ==
  /\ ~disabled
  /\ showSuggestion
  /\ suggestion' = ""
  /\ showSuggestion' = FALSE
  /\ suggestionFor' = Null
  /\ UNCHANGED <<inputValue, disabled, isLoadingSuggestion, debounceRef,
                 suggestionRequests>>
  /\ UNCHANGED <<parser, detector, chat, views, services, notes>>

\* handleKeyDown, Enter: onSend(), which for the chat page is sendMessage: a
\* text that is not blank is sent, the box is cleared and disabled
KeyEnter ==
  /\ ~disabled
  /\ trim(inputValue) # <<>>
  /\ inputValue' = <<>>
  /\ disabled' = TRUE
  /\ UNCHANGED <<suggestion, showSuggestion, isLoadingSuggestion, debounceRef,
                 suggestionRequests, suggestionFor>>
  /\ UNCHANGED <<parser, detector, chat, views, services, notes>>

\* the chat request ends: the page enables the box again
Enable ==
  /\ disabled
  /\ disabled' = FALSE
  /\ UNCHANGED <<inputValue, suggestion, showSuggestion, isLoadingSuggestion,
                 debounceRef, suggestionRequests, suggestionFor>>
  /\ UNCHANGED <<parser, detector, chat, views, services, notes>>

NextSmartInput ==
  HandleChange \/ TimerFires \/ SuggestionArrives \/ KeyTab \/ KeyEscape \/ KeyEnter
    \/ Enable
SpecSmartInput == Init /\ [][NextSmartInput]_vars

(***************************************************************************)
(* OpportunityNotes: a list of blocks the user adds to, edits and deletes  *)
(* from; the parent may hand over initial blocks.                          *)
(***************************************************************************)
\* generateId: `block-${Date.now()}-${random}`, a new id at each call
generateId(n) == "block-" \o ToString(n)

\* the block types the menu offers (two of them) and the contents typed
MenuTypes == {"text", "heading"}
Contents == {"", "x"}

\* the values of the prop initialBlocks: none, one block, two blocks, two
\* blocks of one id
InitialBlocks ==
  { <<>>,
    <<[id |-> "a", type |-> "text", content |-> "x"]>>,
    <<[id |-> "a", type |-> "heading", content |-> "x"],
      [id |-> "b", type |-> "text", content |-> ""]>>,
    <<[id |-> "a", type |-> "text", content |-> ""],
      [id |-> "a", type |-> "text", content |-> "x"]>> }

BlockIds == {blocks[k].id : k \in 1..Len(blocks)}

\* blocks.findIndex(b => b.id === id), counted from 1 (0: not found)
findIndex(id) ==
  IF \E k \in 1..Len(blocks) : blocks[k].id = id
    THEN Min({k \in 1..Len(blocks) : blocks[k].id = id})
    ELSE 0

\* useEffect(..., [initialBlocks]): the parent renders with initial blocks
SetInitialBlocks ==
  /\ \E given \in InitialBlocks :
       blocks' = IF Len(given) > 0 THEN given ELSE blocks
  /\ UNCHANGED <<activeBlockId, showBlockMenu, generated>>
  /\ UNCHANGED <<parser, detector, chat, views, services, smartInput>>

\* addBlock(afterId, type): Enter in a block (type "text")
AddBlock ==
  /\ Len(blocks) < MaxBlocks
  /\ generated < MaxGenerated
  /\ \E afterId \in BlockIds : \E type \in {"text"} :
       blocks' =
         SubSeq(blocks, 1, findIndex(afterId))
           \o <<[id |-> generateId(generated + 1), type |-> type, content |-> ""]>>
           \o SubSeq(blocks, findIndex(afterId) + 1, Len(blocks))
  /\ generated' = generated + 1
  /\ showBlockMenu' = FALSE
  /\ UNCHANGED activeBlockId
  /\ UNCHANGED <<parser, detector, chat, views, services, smartInput>>

\* updateBlock(id, content)
UpdateBlock ==
  /\ \E id \in BlockIds : \E content \in Contents :
       blocks' = [k \in 1..Len(blocks) |->
                    IF blocks[k].id = id THEN [blocks[k] EXCEPT !.content = content]
                    ELSE blocks[k]]
  /\ UNCHANGED <<activeBlockId, showBlockMenu, generated>>
  /\ UNCHANGED <<parser, detector, chat, views, services, smartInput>>

\* "/" in an empty block: the menu opens for the block
OpenBlockMenu ==
  /\ \E k \in 1..Len(blocks) :
       /\ blocks[k].content = ""
       /\ activeBlockId' = [id |-> blocks[k].id]
  /\ showBlockMenu' = TRUE
  /\ UNCHANGED <<blocks, generated>>
  /\ UNCHANGED <<parser, detector, chat, views, services, smartInput>>

\* changeBlockType(activeBlockId, type), from the menu
ChangeBlockType ==
  /\ showBlockMenu
  /\ activeBlockId # Null
  /\ \E type \in MenuTypes :
       blocks' = [k \in 1..Len(blocks) |->
                    IF blocks[k].id = activeBlockId.id THEN [blocks[k] EXCEPT !.type = type]
                    ELSE blocks[k]]
  /\ showBlockMenu' = FALSE
  /\ UNCHANGED <<activeBlockId, generated>>
  /\ UNCHANGED <<parser, detector, chat, views, services, smartInput>>

\* deleteBlock(id): the blocks afterwards
deleteBlock(id) ==
  IF Len(blocks) <= 1 THEN blocks
  ELSE SelectSeq(blocks, LAMBDA b : b.id # id)

\* Backspace in an empty block, more than one block present: deleteBlock
DeleteBlock ==
  /\ \E k \in 1..Len(blocks) :
       /\ blocks[k].content = ""
       /\ Len(blocks) > 1
       /\ blocks' = deleteBlock(blocks[k].id)
  /\ UNCHANGED <<activeBlockId, showBlockMenu, generated>>
  /\ UNCHANGED <<parser, detector, chat, views, services, smartInput>>

\* addAIInsight(insight)
AddAIInsight ==
  /\ Len(blocks) < MaxBlocks
  /\ generated < MaxGenerated
  /\ blocks' = Append(blocks, [id |-> generateId(generated + 1), type |-> "ai-insight",
                               content |-> "Add your AI-generated insight here..."])
  /\ generated' = generated + 1
  /\ UNCHANGED <<activeBlockId, showBlockMenu>>
  /\ UNCHANGED <<parser, detector, chat, views, services, smartInput>>

NextNotes ==
  SetInitialBlocks \/ AddBlock \/ UpdateBlock \/ OpenBlockMenu \/ ChangeBlockType
    \/ DeleteBlock \/ AddAIInsight
SpecNotes == Init /\ [][NextNotes]_vars

(***************************************************************************)
(* What the claims speak of, stated on the reply itself and not through    *)
(* the parser's operators.                                                 *)
(***************************************************************************)
HasDelimiter(r) == \E i \in 1..Len(r) : StartsWithAt(r, i, DELIM)

FirstDelimiter(r) ==
  CHOOSE i \in 1..Len(r) :
    StartsWithAt(r, i, DELIM) /\ \A j \in 1..(i - 1) : ~StartsWithAt(r, j, DELIM)

CountDelimiters(r) == Cardinality({i \in 1..Len(r) : StartsWithAt(r, i, DELIM)})

\* the text before, and after, the first "---"
TextBefore(r) == SubSeq(r, 1, FirstDelimiter(r) - 1)
TextAfter(r) == SubSeq(r, FirstDelimiter(r) + Len(DELIM), Len(r))

\* the metadata of a reply: the text after its first "---", nothing without one
Metadata(r) == IF HasDelimiter(r) THEN TextAfter(r) ELSE <<>>

\* t is s without its leading and trailing whitespace
IsTrimOf(t, s) ==
  \/ t = <<>> /\ \A k \in 1..Len(s) : s[k] \in Whitespace
  \/ \E a \in 1..Len(s) :
       /\ s[a] \notin Whitespace
       /\ \A k \in 1..(a - 1) : s[k] \in Whitespace
       /\ \E b \in a..Len(s) :
            /\ s[b] \notin Whitespace
            /\ \A k \in (b + 1)..Len(s) : s[k] \in Whitespace
            /\ t = SubSeq(s, a, b)

\* s holds, at i, `<label> <integer><suffix>`: the label, any whitespace, one or
\* more digits, the suffix
NumberAnnotationAt(s, i, label, suffix) ==
  /\ StartsWithAt(s, i, label)
  /\ \E j \in (i + Len(label))..Len(s) :
       /\ \A k \in (i + Len(label))..(j - 1) : s[k] \in Whitespace
       /\ s[j] \in Digit
       /\ \E e \in (j + 1)..(Len(s) + 1) :
            /\ \A k \in j..(e - 1) : s[k] \in Digit
            /\ StartsWithAt(s, e, suffix)

HasNumberAnnotation(s, label, suffix) ==
  \E i \in 1..Len(s) : NumberAnnotationAt(s, i, label, suffix)

\* s holds, at i, `<label> [<text>]` with a non-empty text free of ']'
TextAnnotationAt(s, i, label) ==
  /\ StartsWithAt(s, i, label)
  /\ \E j \in (i + Len(label))..Len(s) :
       /\ \A k \in (i + Len(label))..(j - 1) : s[k] \in Whitespace
       /\ s[j] = "["
       /\ \E e \in (j + 2)..Len(s) :
            /\ \A k \in (j + 1)..(e - 1) : s[k] # "]"
            /\ s[e] = "]"

HasTextAnnotation(s, label) == \E i \in 1..Len(s) : TextAnnotationAt(s, i, label)

\* s holds, at i, the marker of a parked-ideas block followed by some text
BlockAt(s, i) ==
  /\ StartsWithAt(s, i, MarkerParkedIdeas)
  /\ i + Len(MarkerParkedIdeas) <= Len(s)
  /\ s[i + Len(MarkerParkedIdeas)] # "*"

HasBlock(s) == \E i \in 1..Len(s) : BlockAt(s, i)

Parsed == pc = "parsed"

\* the texts of the parked ideas of a result, in order
Texts(ideas) == [k \in 1..Len(ideas) |-> ideas[k].text]

(***************************************************************************)
(* C1: parseLarryResponse is total. Whatever the reply, the call returns a  *)
(* record with message, clarity, stats and parkedIdeas, and every field    *)
(* whose annotation is missing from the metadata, or malformed, holds its  *)
(* default. (Parse has no guard on the reply: an input on which an         *)
(* operator of the parser were undefined would stop TLC with an error.)    *)
(***************************************************************************)
C1_WellShaped(res) ==
  /\ DOMAIN res = {"message", "clarity", "stats", "parkedIdeas"}
  /\ DOMAIN res.message = 1..Len(res.message)
  /\ DOMAIN res.clarity = {"percentage", "what", "who", "success"}
  /\ res.clarity.percentage \in Nat
  /\ DOMAIN res.stats = {"questionsAsked", "parkedIdeas", "assumptionsChallenged"}
  /\ \A f \in DOMAIN res.stats : res.stats[f] \in Nat
  /\ DOMAIN res.parkedIdeas = 1..Len(res.parkedIdeas)
  /\ \A k \in DOMAIN res.parkedIdeas :
       DOMAIN res.parkedIdeas[k] = {"id", "text", "timestamp"}

C1_DefaultsWhenAbsent(res, md) ==
  /\ ~HasNumberAnnotation(md, LabelClarity, PERCENT) => res.clarity.percentage = 0
  /\ ~HasTextAnnotation(md, LabelWhat) => res.clarity.what = DefaultWhat
  /\ ~HasTextAnnotation(md, LabelWho) => res.clarity.who = DefaultWho
  /\ ~HasTextAnnotation(md, LabelSuccess) => res.clarity.success = DefaultSuccess
  /\ ~HasNumberAnnotation(md, LabelQuestions, <<>>) => res.stats.questionsAsked = 0
  /\ ~HasNumberAnnotation(md, LabelParked, <<>>) => res.stats.parkedIdeas = 0
  /\ ~HasNumberAnnotation(md, LabelChallenged, <<>>) => res.stats.assumptionsChallenged = 0
  /\ ~HasBlock(md) => res.parkedIdeas = <<>>

C1_Total ==
  Parsed => C1_WellShaped(result) /\ C1_DefaultsWhenAbsent(result, Metadata(response))

\* a malformed annotation (empty brackets) left its field at the default
C1_Witness ==
  /\ Parsed
  /\ includes(Metadata(response), LabelWhat \o TextEmpty)
  /\ ~HasTextAnnotation(Metadata(response), LabelWhat)
  /\ result.clarity.what = DefaultWhat

(***************************************************************************)
(* C2: a reply without "---" parses to its trimmed text as the message,    *)
(* the default clarity, all-zero stats and no parked idea.                 *)
(***************************************************************************)
C2_NoDelimiter ==
  (Parsed /\ ~HasDelimiter(response)) =>
    /\ IsTrimOf(result.message, response)
    /\ result.clarity = [percentage |-> 0, what |-> DefaultWhat, who |-> DefaultWho,
                         success |-> DefaultSuccess]
    /\ result.stats = [questionsAsked |-> 0, parkedIdeas |-> 0, assumptionsChallenged |-> 0]
    /\ result.parkedIdeas = <<>>

\* a reply without delimiter that holds a whole annotation and whitespace to trim
C2_Witness ==
  /\ Parsed
  /\ ~HasDelimiter(response)
  /\ HasNumberAnnotation(response, LabelClarity, PERCENT)
  /\ Len(result.message) < Len(response)
  /\ result.clarity.percentage = 0

(***************************************************************************)
(* C3: the clarity percentage the parser returns is an integer between 0   *)
(* and 100.                                                                *)
(***************************************************************************)
C3_PercentageInRange ==
  Parsed => result.clarity.percentage \in 0..100

(***************************************************************************)
(* C4: only the first "---" is significant. The message is the trimmed     *)
(* text before it, the metadata section is all the text after it, later    *)
(* "---" included, and the fields are those extracted from that text.      *)
(***************************************************************************)
C4_FirstDelimiterOnly ==
  (Parsed /\ HasDelimiter(response)) =>
    /\ IsTrimOf(result.message, TextBefore(response))
    /\ metadataSection(response) = TextAfter(response)
    /\ result.clarity = parseClarity(TextAfter(response))
    /\ result.stats = parseStats(TextAfter(response))

\* "Hello------Problem Clarity: 73%": the annotation follows the second "---"
C4_Witness ==
  /\ Parsed
  /\ CountDelimiters(response) >= 2
  /\ ~HasNumberAnnotation(parts(response)[2], LabelClarity, PERCENT)
  /\ result.message = Hello
  /\ result.clarity.percentage = 73

(***************************************************************************)
(* Replies made of whole annotation items (SpecItems).                     *)
(***************************************************************************)
\* the reply is message text, one "---", and then distinct annotation items
IsItemReply(cs) ==
  \E d \in 1..Len(cs) :
    /\ cs[d] = DELIM
    /\ \A k \in 1..(d - 1) : cs[k] = Hello
    /\ \A k \in (d + 1)..Len(cs) : cs[k] \in Items
    /\ \A k, l \in (d + 1)..Len(cs) : cs[k] = cs[l] => k = l

DelimiterChunk(cs) == CHOOSE d \in 1..Len(cs) : cs[d] = DELIM

RECURSIVE Flatten(_)
Flatten(cs) == IF cs = <<>> THEN <<>> ELSE Head(cs) \o Flatten(Tail(cs))

\* the reply with the items after the delimiter in another order
Reorderings(cs) ==
  LET d == DelimiterChunk(cs)
  IN  {[k \in 1..Len(cs) |-> IF k <= d THEN cs[k] ELSE cs[p[k]]] :
         p \in Permutations((d + 1)..Len(cs))}

\* the reply without its k-th fragment
Without(cs, k) == SubSeq(cs, 1, k - 1) \o SubSeq(cs, k + 1, Len(cs))

\* what a call on reply r returns (the clock set aside)
ResultOn(r) == parseLarryResponse(r, [k \in 1..clockReads(r) |-> 0])

\* clarity, stats and the texts of the parked ideas of a result
Extracted(res) ==
  [clarity |-> res.clarity, stats |-> res.stats, texts |-> Texts(res.parkedIdeas)]

FieldNames ==
  {"percentage", "what", "who", "success", "questionsAsked", "parkedIdeas",
   "assumptionsChallenged", "parkedIdeasList"}

FieldOf(item) ==
  CASE item = ItemClarity -> "percentage"
    [] item = ItemWhat -> "what"
    [] item = ItemWho -> "who"
    [] item = ItemSuccess -> "success"
    [] item = ItemQuestions -> "questionsAsked"
    [] item = ItemParkedCount -> "parkedIdeas"
    [] item = ItemChallenged -> "assumptionsChallenged"
    [] item = ItemParkedList -> "parkedIdeasList"

Field(res, f) ==
  CASE f = "percentage" -> res.clarity.percentage
    [] f = "what" -> res.clarity.what
    [] f = "who" -> res.clarity.who
    [] f = "success" -> res.clarity.success
    [] f = "questionsAsked" -> res.stats.questionsAsked
    [] f = "parkedIdeas" -> res.stats.parkedIdeas
    [] f = "assumptionsChallenged" -> res.stats.assumptionsChallenged
    [] f = "parkedIdeasList" -> Texts(res.parkedIdeas)

DefaultOf(f) ==
  CASE f = "percentage" -> 0
    [] f = "what" -> DefaultWhat
    [] f = "who" -> DefaultWho
    [] f = "success" -> DefaultSuccess
    [] f = "questionsAsked" -> 0
    [] f = "parkedIdeas" -> 0
    [] f = "assumptionsChallenged" -> 0
    [] f = "parkedIdeasList" -> <<>>

(***************************************************************************)
(* C5: extraction is order-insensitive. For a metadata section built from  *)
(* annotation items, every reordering of the items yields the same         *)
(* clarity, the same stats and the same parked-idea texts.                 *)
(***************************************************************************)
C5_OrderInsensitive ==
  (Parsed /\ IsItemReply(chunks)) =>
    \A o \in Reorderings(chunks) : Extracted(ResultOn(Flatten(o))) = Extracted(result)

(***************************************************************************)
(* C6: the extractions are independent. Removing the annotation of one     *)
(* field leaves every other field as it was, and the field without         *)
(* annotation holds its default.                                           *)
(***************************************************************************)
C6_Independent ==
  (Parsed /\ IsItemReply(chunks)) =>
    \A k \in (DelimiterChunk(chunks) + 1)..Len(chunks) :
      LET other == ResultOn(Flatten(Without(chunks, k)))
          gone == FieldOf(chunks[k])
      IN  /\ \A f \in FieldNames \ {gone} : Field(other, f) = Field(result, f)
          /\ Field(other, gone) = DefaultOf(gone)

(***************************************************************************)
(* The parked-ideas block of a metadata section (SpecParked): the text     *)
(* from the first marker that has text after it to the next '*'.           *)
(***************************************************************************)
BlockStart(md) ==
  Min({i \in 1..Len(md) : BlockAt(md, i)}) + Len(MarkerParkedIdeas)

\* the index of the next '*', Len(md) + 1 when there is none
BlockEnd(md) ==
  LET stars == {q \in BlockStart(md)..Len(md) : md[q] = "*"}
  IN  IF stars = {} THEN Len(md) + 1 ELSE Min(stars)

BlockText(md) == SubSeq(md, BlockStart(md), BlockEnd(md) - 1)

\* the block ends at a "**" that opens another section
FollowedBySection(md) ==
  /\ BlockEnd(md) < Len(md)
  /\ md[BlockEnd(md)] = "*"
  /\ md[BlockEnd(md) + 1] = "*"

ContainsNone(b) == \E i \in 1..Len(b) : StartsWithAt(b, i, NONE)

\* the places of the '-' that open a line of b: only blanks lie between the
\* start of the line and the '-'
DashLineStarts(b) ==
  {i \in 1..Len(b) :
     /\ b[i] = "-"
     /\ \E a \in 1..i :
          /\ a = 1 \/ b[a - 1] = "\n"
          /\ \A k \in a..(i - 1) : b[k] \in Whitespace \ {"\n"}}

\* the line of b that holds index i
LineAround(b, i) ==
  LET a == Max({0} \cup {k \in 1..i : b[k] = "\n"}) + 1
      e == Min({Len(b) + 1} \cup {k \in i..Len(b) : b[k] = "\n"}) - 1
  IN  SubSeq(b, a, e)

RECURSIVE Ascending(_)
Ascending(S) == IF S = {} THEN <<>> ELSE <<Min(S)>> \o Ascending(S \ {Min(S)})

\* the '-' lines of b, in their order
DashLines(b) ==
  LET at == Ascending(DashLineStarts(b))
  IN  [k \in 1..Len(at) |-> LineAround(b, at[k])]

\* a '-' line without its '-' and without the whitespace around what follows
WithoutDash(line) ==
  LET t == trim(line)
  IN  trim(SubSeq(t, 2, Len(t)))

(***************************************************************************)
(* C7: when the parked-ideas block is followed by another '**' section,    *)
(* the parked ideas returned are exactly the '-' lines between the marker  *)
(* and the next '*', in their order, and no '-' line after that '*'.       *)
(* C7_Claimed states it as claimed; C7_BlockLines for the blocks that do   *)
(* not contain "None", the others yielding no idea at all (see C9).        *)
(***************************************************************************)
C7_Claimed ==
  LET md == Metadata(response)
  IN  (Parsed /\ HasBlock(md) /\ FollowedBySection(md)) =>
        Texts(result.parkedIdeas) =
          [k \in 1..Len(DashLines(BlockText(md))) |-> ideaText(DashLines(BlockText(md))[k])]

C7_BlockLines ==
  LET md == Metadata(response)
  IN  (Parsed /\ HasBlock(md) /\ FollowedBySection(md)) =>
        IF ContainsNone(BlockText(md))
          THEN result.parkedIdeas = <<>>
          ELSE Texts(result.parkedIdeas) =
                 [k \in 1..Len(DashLines(BlockText(md))) |->
                    ideaText(DashLines(BlockText(md))[k])]

\* two ideas are returned, and a '-' line of the next section is not
C7_Witness ==
  LET md == Metadata(response)
  IN  /\ Parsed
      /\ HasBlock(md)
      /\ FollowedBySection(md)
      /\ ~ContainsNone(BlockText(md))
      /\ Len(result.parkedIdeas) = 2
      /\ DashLineStarts(SubSeq(md, BlockEnd(md), Len(md))) # {}

(***************************************************************************)
(* C8: for every line of the block whose trimmed content starts with '-',  *)
(* indented lines included, the idea text is the line without the leading  *)
(* '-' and the whitespace that follows it.                                 *)
(***************************************************************************)
C8_DashStripped ==
  LET md == Metadata(response)
  IN  (Parsed /\ HasBlock(md) /\ ~ContainsNone(BlockText(md))) =>
        Texts(result.parkedIdeas) =
          [k \in 1..Len(DashLines(BlockText(md))) |-> WithoutDash(DashLines(BlockText(md))[k])]

(***************************************************************************)
(* C9: if the captured text of the parked-ideas block contains "None"      *)
(* anywhere, no parked idea is returned; otherwise one per '-' line.       *)
(***************************************************************************)
C9_NoneSuppression ==
  LET md == Metadata(response)
  IN  (Parsed /\ HasBlock(md)) =>
        IF ContainsNone(BlockText(md))
          THEN result.parkedIdeas = <<>>
          ELSE Len(result.parkedIdeas) = Cardinality(DashLineStarts(BlockText(md)))

\* a block with '-' lines and the word "None": no idea is returned
C9_Witness ==
  LET md == Metadata(response)
  IN  /\ Parsed
      /\ HasBlock(md)
      /\ ContainsNone(BlockText(md))
      /\ DashLineStarts(BlockText(md)) # {}
      /\ result.parkedIdeas = <<>>

(***************************************************************************)
(* C10: the counter stats.parkedIdeas is the integer of the                *)
(* 'Parked ideas: <integer>' annotation (0 without one), whatever the      *)
(* length of the list, and the list is what the block yields, whatever     *)
(* the counter.                                                            *)
(***************************************************************************)
RECURSIVE DecimalValue(_)
DecimalValue(ds) ==
  IF ds = <<>> THEN 0
  ELSE DigitValue(Head(ds)) * (10 ^ (Len(ds) - 1)) + DecimalValue(Tail(ds))

\* the integer of the first `<label> <integer>` of md, 0 when there is none
AnnotatedInteger(md, label) ==
  IF ~HasNumberAnnotation(md, label, <<>>) THEN 0
  ELSE LET i == Min({k \in 1..Len(md) : NumberAnnotationAt(md, k, label, <<>>)})
           j == Min({k \in (i + Len(label))..Len(md) : md[k] \notin Whitespace})
           e == Min({k \in j..(Len(md) + 1) : k = Len(md) + 1 \/ md[k] \notin Digit})
       IN  DecimalValue(SubSeq(md, j, e - 1))

C10_CounterFromAnnotation ==
  LET md == Metadata(response)
  IN  Parsed =>
        /\ result.stats.parkedIdeas = AnnotatedInteger(md, LabelParked)
        /\ Len(result.parkedIdeas) =
             IF HasBlock(md) /\ ~ContainsNone(BlockText(md))
               THEN Cardinality(DashLineStarts(BlockText(md)))
               ELSE 0

\* the counter says 12 and the list holds one idea
C10_Witness ==
  /\ Parsed
  /\ result.stats.parkedIdeas = 12
  /\ Len(result.parkedIdeas) = 1

(***************************************************************************)
(* C11: within one result no two parked ideas share an id.                 *)
(***************************************************************************)
C11_IdsUniqueInResult ==
  Parsed =>
    \A a, b \in 1..Len(result.parkedIdeas) :
      result.parkedIdeas[a].id = result.parkedIdeas[b].id => a = b

\* a result with three parked ideas
C11_Witness ==
  /\ Parsed
  /\ Len(result.parkedIdeas) >= 3

(***************************************************************************)
(* The calls of a session (SpecSession): `earlier` is any one of the       *)
(* calls that returned before the present one.                             *)
(***************************************************************************)
Ids(ideas) == {ideas[k].id : k \in 1..Len(ideas)}

\* message, clarity, stats and parked-idea texts: a result but for the ids and
\* the timestamps of its ideas
Content(res) ==
  [message |-> res.message, clarity |-> res.clarity, stats |-> res.stats,
   texts |-> Texts(res.parkedIdeas)]

(***************************************************************************)
(* C12: ids are fresh at each parse. An id that a call gives to a parked   *)
(* idea differs from every id an earlier call gave.                        *)
(***************************************************************************)
C12_IdsFreshAcrossCalls ==
  (Parsed /\ earlier # Null) =>
    Ids(result.parkedIdeas) \cap Ids(earlier.result.parkedIdeas) = {}

C14_MetadataOnly ==
  Parsed =>
    /\ HasDelimiter(response) =>
         Extracted(result) = Extracted(ResultOn(DELIM \o TextAfter(response)))
    /\ ~HasDelimiter(response) =>
         Extracted(result) = [clarity |-> DefaultClarity, stats |-> DefaultStats, texts |-> <<>>]

\* a list of parked ideas before the delimiter, the clarity annotation after it
C14_Witness ==
  /\ Parsed
  /\ HasDelimiter(response)
  /\ HasBlock(TextBefore(response))
  /\ HasNumberAnnotation(TextAfter(response), LabelClarity, PERCENT)
  /\ result.parkedIdeas = <<>>
  /\ result.clarity.percentage = 73

(***************************************************************************)
(* The population statistic of the scores, in exact arithmetic. The score  *)
(* of a record is the value of its Number, 0 without one: the natural      *)
(* number Units(o) of units 2^LeastExp. With N records, S the sum of their *)
(* units and Q the sum of the squares of N * units - S, the mean is S / N, *)
(* the deviation of a record |N * units - S| / N and the variance          *)
(* Q / N^3, so that deviation > 2 sigma is N * (N * units - S)^2 > 4 * Q.  *)
(***************************************************************************)
Detected == mean # Null

HasScore(o) == o.csio_score.cls = "finite" /\ o.csio_score.man # <<>>

LeastExp ==
  Min({0} \cup {opportunities[k].csio_score.exp :
                  k \in {j \in 1..Len(opportunities) : HasScore(opportunities[j])}})

Units(o) ==
  IF HasScore(o) THEN ShiftLeft(o.csio_score.man, o.csio_score.exp - LeastExp) ELSE <<>>

RECURSIVE SumUnits(_)
SumUnits(k) == IF k = 0 THEN <<>> ELSE AddN(SumUnits(k - 1), Units(opportunities[k]))

\* |N * units - S| of the k-th record
Distance(k) ==
  LET a == MulSmall(Units(opportunities[k]), Len(opportunities))
      b == SumUnits(Len(opportunities))
  IN  IF CmpN(a, b) >= 0 THEN SubN(a, b) ELSE SubN(b, a)

RECURSIVE SumSquaredDistances(_)
SumSquaredDistances(k) ==
  IF k = 0 THEN <<>>
  ELSE AddN(SumSquaredDistances(k - 1), MulN(Distance(k), Distance(k)))

\* -1, 0, 1: the deviation of the k-th record is less than, equal to, more
\* than two standard deviations
AgainstTwoSigma(k) ==
  CmpN(MulSmall(MulN(Distance(k), Distance(k)), Len(opportunities)),
       MulSmall(SumSquaredDistances(Len(opportunities)), 4))

Returned == {anomalies[k].id : k \in 1..Len(anomalies)}

\* the scores of the collection are the given decimal numbers of tenths
ScoresAre(tenths) ==
  /\ Len(opportunities) = Len(tenths)
  /\ \A k \in 1..Len(tenths) :
       opportunities[k].csio_score =
         IF tenths[k] = 10 THEN Integer(1) ELSE Literal(tenths[k], 1)

(***************************************************************************)
(* C15: detectAnomalies returns exactly the records whose score deviates   *)
(* from the mean of all scores by more than twice the population standard  *)
(* deviation sqrt(sum (score - mean)^2 / N).                               *)
(***************************************************************************)
C15_ExactlyTheAnomalies ==
  (Detected /\ opportunities # <<>>) =>
    \A k \in 1..Len(opportunities) : (k \in Returned) <=> (AgainstTwoSigma(k) = 1)

(***************************************************************************)
(* C16: the comparison is strict. A record whose deviation is exactly two  *)
(* standard deviations is not returned; for the scores 0.5, 0.5, 0.5, 0.5, *)
(* 1.0 and for 0.1, 0.5, 0.5, 0.5, 0.9 no record is returned.              *)
(***************************************************************************)
C16_StrictAtTwoSigma ==
  (Detected /\ opportunities # <<>>) =>
    /\ \A k \in 1..Len(opportunities) : AgainstTwoSigma(k) = 0 => k \notin Returned
    /\ ScoresAre(<<5, 5, 5, 5, 10>>) => anomalies = <<>>
    /\ ScoresAre(<<1, 5, 5, 5, 9>>) => anomalies = <<>>

(***************************************************************************)
(* C17: a returned record is a 'high_performer' exactly when its score is  *)
(* greater than the mean of all scores and a 'needs_attention' exactly     *)
(* when it is less; no returned record has the mean as its score.          *)
(***************************************************************************)
\* -1, 0, 1: the score of the record is less than, equal to, more than the
\* mean of the scores of the collection
AgainstMean(o) ==
  CmpN(MulSmall(Units(o), Len(opportunities)), SumUnits(Len(opportunities)))

C17_TypeBySideOfMean ==
  Detected =>
    \A k \in 1..Len(anomalies) :
      /\ anomalies[k].anomalyType \in {"high_performer", "needs_attention"}
      /\ anomalies[k].anomalyType = "high_performer" <=> AgainstMean(anomalies[k]) = 1
      /\ anomalies[k].anomalyType = "needs_attention" <=> AgainstMean(anomalies[k]) = -1

\* the same, with the mean the call computed in place of the mean of the scores
TypeBySideOfComputedMean ==
  Detected =>
    \A k \in 1..Len(anomalies) :
      LET score == IF HasScore(anomalies[k]) THEN anomalies[k].csio_score ELSE PlusZero
      IN  /\ anomalies[k].anomalyType = "high_performer" <=> greaterThan(score, mean)
          /\ anomalies[k].anomalyType = "needs_attention" <=> greaterThan(mean, score)

(***************************************************************************)
(* C18: when all the scores of a non-empty collection are identical, no    *)
(* record is returned, whatever the size of the collection.                *)
(***************************************************************************)
C18_IdenticalScoresNoAnomaly ==
  (/\ Detected
   /\ opportunities # <<>>
   /\ \A j, k \in 1..Len(opportunities) :
        opportunities[j].csio_score = opportunities[k].csio_score)
    => anomalies = <<>>

(***************************************************************************)
(* C19: on an empty collection detectAnomalies returns an empty list       *)
(* without computing the mean and the standard deviation: no NaN is        *)
(* produced.                                                               *)
(***************************************************************************)
C19_EmptyFailsFast ==
  (Detected /\ opportunities = <<>>) =>
    /\ anomalies = <<>>
    /\ ~IsNaN(mean)
    /\ ~IsNaN(stdDev)

(***************************************************************************)
(* C20: the result is a subsequence of the input. Every returned record    *)
(* is an input record (same id, same score), none is returned twice, and   *)
(* the returned records are in the order of the input.                     *)
(***************************************************************************)
PositionOf(id) == CHOOSE p \in 1..Len(opportunities) : opportunities[p].id = id

C20_Subsequence ==
  Detected =>
    /\ \A k \in 1..Len(anomalies) :
         /\ \E p \in 1..Len(opportunities) : opportunities[p].id = anomalies[k].id
         /\ anomalies[k].csio_score = opportunities[PositionOf(anomalies[k].id)].csio_score
    /\ \A j, k \in 1..Len(anomalies) :
         j < k => PositionOf(anomalies[j].id) < PositionOf(anomalies[k].id)

\* three records returned, in the order of the input
C20_Witness ==
  /\ Detected
  /\ Len(anomalies) = 3
  /\ anomalies[1].id = 1
  /\ anomalies[3].id = 3

(***************************************************************************)
(* C21: a record without score counts as a record of score 0 in the mean,  *)
(* in the standard deviation, in the comparison and in the anomalyType:    *)
(* with 0 written in the place of every absent score the call computes the *)
(* same mean and standard deviation and returns the same records with the  *)
(* same anomalyType.                                                       *)
(***************************************************************************)
WithExplicitZero(opps) ==
  [k \in 1..Len(opps) |->
     IF opps[k].csio_score = undefined
       THEN [opps[k] EXCEPT !.csio_score = PlusZero] ELSE opps[k]]

Flags(anoms) == [k \in 1..Len(anoms) |-> <<anoms[k].id, anoms[k].anomalyType>>]

C21_AbsentScoreIsZero ==
  Detected =>
    \A d \in {detectAnomalies(WithExplicitZero(opportunities))} :
      /\ d.mean = mean
      /\ d.stdDev = stdDev
      /\ Flags(d.anomalies) = Flags(anomalies)

\* a record without score is returned
C21_Witness ==
  /\ Detected
  /\ \E k \in 1..Len(anomalies) : anomalies[k].csio_score = undefined

(***************************************************************************)
(* C22: detectAnomalies leaves its input as it was, and every returned     *)
(* record has each field of the input record of its id, with the value it  *)
(* has there, and anomalyType as its one further field.                    *)
(***************************************************************************)
CarriesItsSource(a) ==
  \E p \in 1..Len(opportunities) :
    /\ opportunities[p].id = a.id
    /\ DOMAIN a = DOMAIN opportunities[p] \cup {"anomalyType"}
    /\ \A f \in DOMAIN opportunities[p] : a[f] = opportunities[p][f]

C22_InputUntouchedFieldsCarried ==
  [][(mean = Null /\ mean' # Null) =>
       /\ opportunities' = opportunities
       /\ \A k \in 1..Len(anomalies') : CarriesItsSource(anomalies'[k])]_vars

\* three records returned, each with the name and the score of its source
C22_Witness ==
  /\ Detected
  /\ Len(anomalies) = 3
  /\ \A k \in 1..3 : anomalies[k].name = "demo" /\ anomalies[k].csio_score = ScoreTiny

(***************************************************************************)
(* C23: the session data of the chat page are those of the latest reply    *)
(* alone. After any replies they are clarity, stats and parked ideas of    *)
(* the parse of the reply received last (the defaults before the first),   *)
(* with nothing of the replies before it.                                  *)
(***************************************************************************)
Replies == SelectSeq(messages, LAMBDA m : m.kind = "assistant")

C23_SessionDataOfLatestReply ==
  IF Replies = <<>>
    THEN sessionData =
           [clarity |-> DefaultClarity, stats |-> DefaultStats, parkedIdeas |-> <<>>]
    ELSE \E clock \in Clocks(clockReads(Replies[Len(Replies)].content)) :
           \E parsed \in {parseLarryResponse(Replies[Len(Replies)].content, clock)} :
             /\ sessionData.clarity = parsed.clarity
             /\ sessionData.stats = parsed.stats
             /\ sessionData.parkedIdeas = parsed.parkedIdeas

\* a reply with clarity and parked ideas, then a reply without annotations:
\* every field is back at its default
C23_Witness ==
  /\ Len(Replies) = 2
  /\ Replies[1].content = Hello \o DELIM \o ItemClarity \o ItemParkedList
  /\ Replies[2].content = Hello
  /\ sessionData =
       [clarity |-> DefaultClarity, stats |-> DefaultStats, parkedIdeas |-> <<>>]

(***************************************************************************)
(* C29: a chat request that fails leaves the session data as they were     *)
(* when sendMessage was called. The call adds the message of the user and  *)
(* one error message, ends with the loading flag down as it was, and has   *)
(* cleared the input box.                                                  *)
(***************************************************************************)
\* the step in which the request of sendMessage fails
Failing ==
  /\ request # Null
  /\ request' = Null
  /\ messages'[Len(messages')].kind = "error"

C24_AnomaliesOfCurrentDataset ==
  (showAnomalyHighlighting /\ gridDetections = <<>>) =>
    gridAnomalies = anomalyInfo(detectAnomalies(data).anomalies)

(***************************************************************************)
(* C25: neither OpportunityGrid nor OpportunityCharts calls                *)
(* detectAnomalies on an empty collection.                                 *)
(***************************************************************************)
C25_NoCallOnEmpty ==
  /\ \A k \in 1..Len(gridDetections) : gridDetections[k].of # <<>>
  /\ \A k \in 1..Len(chartsDetections) : chartsDetections[k].of # <<>>

\* both components have called detectAnomalies, on a dataset of six records
C25_Witness ==
  /\ gridDetections # <<>>
  /\ chartsDetections # <<>>
  /\ Len(gridDetections[1].of) = 6
  /\ Len(chartsDetections[1].of) = 6

(***************************************************************************)
(* C27: a collection of at most five records has no anomaly.               *)
(* Whatever the scores, the call on five records or fewer returns the      *)
(* empty list.                                                             *)
(***************************************************************************)
C27_NoAnomalyUpToFive ==
  (Detected /\ Len(opportunities) <= 5) => anomalies = <<>>

(***************************************************************************)
(* C26: an AI handler never rejects, and falls back on failure.            *)
(* The promise of each of the four handlers is fulfilled however the call  *)
(* ends; when the request throws, the response is not OK or the body       *)
(* cannot be decoded, its value is that of the local fallback of the       *)
(* handler on the input of the call.                                       *)
(***************************************************************************)
C26_NeverRejectsFallsBack ==
  aiSettled # Null =>
    /\ aiSettled.state = "fulfilled"
    /\ aiSettled.after \in {"threw", "notOk", "undecodable"} =>
         aiSettled.value = fallbackOf(aiCall)

\* the body of a reply to smartTextAreaHandler could not be decoded, and the
\* handler resolved with the suggestion made locally for "I THINK so"
C26_Witness ==
  /\ aiSettled # Null
  /\ aiCall.handler = "smartTextAreaHandler"
  /\ aiSettled.after = "undecodable"
  /\ aiSettled.state = "fulfilled"
  /\ aiSettled.value = ", but I'm not sure about..."

(***************************************************************************)
(* C28: the suggestion shown was asked for the text now in the box.        *)
(* Whenever a suggestion becomes visible (showSuggestion with a suggestion *)
(* that is not empty), the request it answers was made for the present     *)
(* value: an answer for an earlier text does not show up after the user    *)
(* has typed on.                                                           *)
(***************************************************************************)
Visible == showSuggestion /\ suggestion # ""

C28_ShownForCurrentInput ==
  [][(~Visible /\ Visible') => suggestionFor' = inputValue']_vars

====
